---- MODULE Spec2Model ----
(***************************************************************************)
(* Verification model of frictional-price-discovery: the price cleaning    *)
(* engine (ingestion/pipeline_align.py) and, as single function calls, the *)
(* minute index and alignment (ingestion/transforms/time_align.py), the    *)
(* features (ingestion/features.py), the rolling percentile                *)
(* (ingestion/dataset_builder.py), validation (ingestion/validation.py),   *)
(* the missingness report (ingestion/reporting.py), the per-minute swap    *)
(* aggregation (ingestion/pipeline_align.py), and the source clients       *)
(* (ingestion/sources): block search and basefee fetch, the HTTP retry     *)
(* loops and the paginated Graph fetches.                                  *)
(*                                                                         *)
(* A merged row is a Python dict: here a function whose DOMAIN is the set  *)
(* of keys present in the dict.  Prices are integers; raw prices are drawn *)
(* from even numbers so that the neighbour mean (a + b) / 2.0 of two raw   *)
(* prices is again an integer.  Minutes are integers (minutes since the    *)
(* start of the window).  Float ratio tests a / b < t are written as the   *)
(* cross-multiplied integer comparison, which agrees with IEEE division    *)
(* on every value used here.                                               *)
(***************************************************************************)
EXTENDS Integers, Sequences, FiniteSets, TLC

\* ---------------------------------------------------------------- values
\* Python None (also the result of dict.get on a missing key)
None == 0 - 1
\* a raw value that float() rejects or that is not finite
NaN == 0 - 2
\* marker used only while building inputs: the key is not in the row
Absent == 0 - 3

\* ---------------------------------------------------------------- bounds
MaxRows == 3

\* raw values of the 5 bps series and of the reference price: every row
\* draws one of each
U5Values == {Absent, 20, 200, 300, 400}
CexValues == {NaN, 200}

\* raw 30 bps series over n minutes: no valid price at all, a trade at 200
\* every minute, or one trade in the first minute and none after it
U30Timelines(n) ==
  { [i \in 1..n |-> 0],
    [i \in 1..n |-> 200],
    [i \in 1..n |-> IF i = 1 THEN 200 ELSE Absent] }

\* the spike specification: more rows, prices around the 3% stability and
\* 20% jump thresholds (206/200 = 1.03, 240/200 = 1.20), a steady reference
SpikeRows == 4
SpikeU5Values == {Absent, 200, 206, 240, 250}
SpikeCexValues == {200}

\* ------------------------------------------------------- dict operations
Get(row, k) == IF k \in DOMAIN row THEN row[k] ELSE None

Put(row, k, v) == [x \in DOMAIN row \cup {k} |-> IF x = k THEN v ELSE row[x]]

SetDefault(row, k, v) == IF k \in DOMAIN row THEN row ELSE Put(row, k, v)

Max2(a, b) == IF a >= b THEN a ELSE b

Min2(a, b) == IF a <= b THEN a ELSE b

\* ------------------------------------------------------------- constants
\* ratio thresholds in hundredths (0.5, 1.5, 1.20, 1.03) and the jump factor
RatioDen == 100
min_cex_ratio == 50
max_cex_ratio == 150
max_jump_ratio == 10
spike_jump_threshold == 120
neighbor_stability_threshold == 103

\* variant: the 30 bps entry names the age key of the 5 bps series
configsSharedAgeKey ==
  << [ price_key |-> "uniswap5_token0_price",
       age_key |-> "uniswap5_age_since_last_trade_min",
       outlier_key |-> "uniswap5_price_outlier_flag",
       patch_flag_key |-> "uniswap5_price_spike_patch_flag",
       fee_key |-> "uniswap5_fee_tier_bps",
       fee_bps |-> 5,
       staleness_key |-> "uniswap5_staleness_min" ],
     [ price_key |-> "uniswap30_token0_price",
       age_key |-> "uniswap5_age_since_last_trade_min",
       outlier_key |-> "uniswap30_price_outlier_flag",
       patch_flag_key |-> "uniswap30_price_spike_patch_flag",
       fee_key |-> "uniswap30_fee_tier_bps",
       fee_bps |-> 30,
       staleness_key |-> "uniswap30_staleness_min" ] >>

\* (price_key, age_key, outlier_key, patch_flag_key) per series
configs ==
  << [ price_key |-> "uniswap5_token0_price",
       age_key |-> "uniswap5_age_since_last_trade_min",
       outlier_key |-> "uniswap5_price_outlier_flag",
       patch_flag_key |-> "uniswap5_price_spike_patch_flag",
       fee_key |-> "uniswap5_fee_tier_bps",
       fee_bps |-> 5,
       staleness_key |-> "uniswap5_staleness_min" ],
     [ price_key |-> "uniswap30_token0_price",
       age_key |-> "uniswap30_age_since_last_trade_min",
       outlier_key |-> "uniswap30_price_outlier_flag",
       patch_flag_key |-> "uniswap30_price_spike_patch_flag",
       fee_key |-> "uniswap30_fee_tier_bps",
       fee_bps |-> 30,
       staleness_key |-> "uniswap30_staleness_min" ] >>

Series == 1..2

\* ------------------------------------------------------- pure functions
\* _as_valid_price: None for None, unparseable, non-finite or <= 0
_as_valid_price(value) ==
  IF value = None THEN None
  ELSE IF value = NaN THEN None
  ELSE IF value <= 0 THEN None
  ELSE value

\* _parse_minute_utc: the minute of the row as an instant
_parse_minute_utc(value) == value

\* variant: a ratio exactly on a bound counts as outside
CexOutlierInclusive(observed_price, cex_price) ==
  /\ cex_price # None
  /\ \/ observed_price * RatioDen <= min_cex_ratio * cex_price
     \/ observed_price * RatioDen >= max_cex_ratio * cex_price

\* ratio = observed / cex; ratio < min_cex_ratio or ratio > max_cex_ratio
CexOutlier(observed_price, cex_price) ==
  /\ cex_price # None
  /\ \/ observed_price * RatioDen < min_cex_ratio * cex_price
     \/ observed_price * RatioDen > max_cex_ratio * cex_price

\* jump_ratio = observed / last; jump_ratio < 1/max_jump or > max_jump
JumpOutlier(observed_price, last_price_) ==
  /\ last_price_ # None
  /\ \/ observed_price * max_jump_ratio < last_price_
     \/ observed_price > max_jump_ratio * last_price_

\* the screening decision of one row (lines 262-278)
IsOutlier(row, c, last_price_) ==
  LET observed_price == _as_valid_price(Get(row, c.price_key))
      cex_price == _as_valid_price(Get(row, "coinbase_close"))
  IN  /\ observed_price # None
      /\ \/ CexOutlier(observed_price, cex_price)
         \/ JumpOutlier(observed_price, last_price_)

\* variant: the age counts one minute too few
AgeMinutesShort(minute, last_trade_minute_) ==
  Max2(0, minute - last_trade_minute_ - 1)

\* variant: the subtraction is reversed
AgeMinutesReversed(minute, last_trade_minute_) ==
  Max2(0, last_trade_minute_ - minute)

\* int((minute - last_trade_minute).total_seconds() // 60), clamped at 0
AgeMinutes(minute, last_trade_minute_) == Max2(0, minute - last_trade_minute_)

\* variant: a row without a valid reference price is screened against the
\* reference price of the following row
ForwardFillRowLookahead(recs, idx_, c, last_price_, last_trade_minute_) ==
  LET row == recs[idx_]
      minute == _parse_minute_utc(row["minute_utc"])
      peeked == IF /\ _as_valid_price(Get(row, "coinbase_close")) = None
                   /\ idx_ < Len(recs)
                THEN Put(row, "coinbase_close",
                         Get(recs[idx_ + 1], "coinbase_close"))
                ELSE row
      is_outlier == IsOutlier(peeked, c, last_price_)
      observed_price == IF is_outlier THEN None
                        ELSE _as_valid_price(Get(row, c.price_key))
      flagged == Put(row, c.outlier_key, is_outlier)
  IN  IF observed_price # None
      THEN [ row |-> Put(Put(flagged, c.price_key, observed_price), c.age_key, 0),
             last_price |-> observed_price,
             last_trade_minute |-> minute ]
      ELSE IF last_price_ # None /\ last_trade_minute_ # None
      THEN [ row |-> Put(Put(flagged, c.price_key, last_price_), c.age_key,
                         AgeMinutes(minute, last_trade_minute_)),
             last_price |-> last_price_,
             last_trade_minute |-> last_trade_minute_ ]
      ELSE [ row |-> Put(flagged, c.age_key, None),
             last_price |-> last_price_,
             last_trade_minute |-> last_trade_minute_ ]

\* variant: a flagged observation is not discarded and advances the state
ForwardFillRowKeepsOutlier(recs, idx_, c, last_price_, last_trade_minute_) ==
  LET row == recs[idx_]
      minute == _parse_minute_utc(row["minute_utc"])
      is_outlier == IsOutlier(row, c, last_price_)
      observed_price == _as_valid_price(Get(row, c.price_key))
      flagged == Put(row, c.outlier_key, is_outlier)
  IN  IF observed_price # None
      THEN [ row |-> Put(Put(flagged, c.price_key, observed_price), c.age_key, 0),
             last_price |-> observed_price,
             last_trade_minute |-> minute ]
      ELSE IF last_price_ # None /\ last_trade_minute_ # None
      THEN [ row |-> Put(Put(flagged, c.price_key, last_price_), c.age_key,
                         AgeMinutes(minute, last_trade_minute_)),
             last_price |-> last_price_,
             last_trade_minute |-> last_trade_minute_ ]
      ELSE [ row |-> Put(flagged, c.age_key, None),
             last_price |-> last_price_,
             last_trade_minute |-> last_trade_minute_ ]

\* body of the forward-fill loop for the row at index idx_ (1-based) of
\* recs (lines 260-296): the new row and the new accumulator
ForwardFillRow(recs, idx_, c, last_price_, last_trade_minute_) ==
  LET row == recs[idx_]
      minute == _parse_minute_utc(row["minute_utc"])
      is_outlier == IsOutlier(row, c, last_price_)
      observed_price == IF is_outlier THEN None
                        ELSE _as_valid_price(Get(row, c.price_key))
      flagged == Put(row, c.outlier_key, is_outlier)
  IN  IF observed_price # None
      THEN [ row |-> Put(Put(flagged, c.price_key, observed_price), c.age_key, 0),
             last_price |-> observed_price,
             last_trade_minute |-> minute ]
      ELSE IF last_price_ # None /\ last_trade_minute_ # None
      THEN [ row |-> Put(Put(flagged, c.price_key, last_price_), c.age_key,
                         AgeMinutes(minute, last_trade_minute_)),
             last_price |-> last_price_,
             last_trade_minute |-> last_trade_minute_ ]
      ELSE [ row |-> Put(flagged, c.age_key, None),
             last_price |-> last_price_,
             last_trade_minute |-> last_trade_minute_ ]

\* the trailing setdefault loop of the forward-fill function (lines 298-302)
FillDefaults(row) ==
  LET r1 == SetDefault(row, configs[1].fee_key, configs[1].fee_bps)
      r2 == SetDefault(r1, configs[2].fee_key, configs[2].fee_bps)
      r3 == SetDefault(r2, configs[1].staleness_key, Get(r2, configs[1].age_key))
  IN  SetDefault(r3, configs[2].staleness_key, Get(r3, configs[2].age_key))

\* `for row in records` of one series, from row i on
RECURSIVE ForwardFillLoop(_, _, _, _, _)
ForwardFillLoop(recs, c, i, last_price_, last_trade_minute_) ==
  IF i > Len(recs) THEN recs
  ELSE LET out == ForwardFillRow(recs, i, c, last_price_, last_trade_minute_)
       IN  ForwardFillLoop([recs EXCEPT ![i] = out.row], c, i + 1,
                           out.last_price, out.last_trade_minute)

\* the whole function: both series in the order of configs, then defaults
_forward_fill_uniswap_mid_prices(recs) ==
  LET s1 == ForwardFillLoop(recs, configs[1], 1, None, None)
      s2 == ForwardFillLoop(s1, configs[2], 1, None, None)
  IN  [i \in 1..Len(s2) |-> FillDefaults(s2[i])]

\* variant: the left neighbour's price instead of the mean
NeighborMeanLeft(prev_price, next_price) == prev_price

\* (prev_price + next_price) / 2.0
NeighborMean(prev_price, next_price) == (prev_price + next_price) \div 2

\* max(a, b) / min(a, b) > t / 100
RatioAbove(a, b, t) == Max2(a, b) * RatioDen > t * Min2(a, b)

\* max(a, b) / min(a, b) < t / 100
RatioBelow(a, b, t) == Max2(a, b) * RatioDen < t * Min2(a, b)

\* variant: a jump against one neighbour is enough
SpikeConditionOneSided(recs, idx_, c) ==
  LET prev_price == _as_valid_price(Get(recs[idx_ - 1], c.price_key))
      curr_price == _as_valid_price(Get(recs[idx_], c.price_key))
      next_price == _as_valid_price(Get(recs[idx_ + 1], c.price_key))
  IN  /\ Get(recs[idx_], c.age_key) = 0
      /\ prev_price # None /\ curr_price # None /\ next_price # None
      /\ ~RatioAbove(prev_price, next_price, neighbor_stability_threshold)
      /\ ~(/\ RatioBelow(curr_price, prev_price, spike_jump_threshold)
           /\ RatioBelow(curr_price, next_price, spike_jump_threshold))

\* variant: a jump against the left neighbour alone is enough
SpikeConditionLeftOnly(recs, idx_, c) ==
  LET prev_price == _as_valid_price(Get(recs[idx_ - 1], c.price_key))
      curr_price == _as_valid_price(Get(recs[idx_], c.price_key))
      next_price == _as_valid_price(Get(recs[idx_ + 1], c.price_key))
  IN  /\ Get(recs[idx_], c.age_key) = 0
      /\ prev_price # None /\ curr_price # None /\ next_price # None
      /\ ~RatioBelow(curr_price, prev_price, spike_jump_threshold)

\* the guards of the spike-patch loop body (lines 340-363): TRUE when the
\* row at index idx_ (1-based) is patched
SpikeCondition(recs, idx_, c) ==
  LET prev_price == _as_valid_price(Get(recs[idx_ - 1], c.price_key))
      curr_price == _as_valid_price(Get(recs[idx_], c.price_key))
      next_price == _as_valid_price(Get(recs[idx_ + 1], c.price_key))
  IN  /\ Get(recs[idx_], c.age_key) = 0
      /\ prev_price # None /\ curr_price # None /\ next_price # None
      /\ ~RatioAbove(prev_price, next_price, neighbor_stability_threshold)
      /\ ~RatioBelow(curr_price, prev_price, spike_jump_threshold)
      /\ ~RatioBelow(curr_price, next_price, spike_jump_threshold)

\* variant: the patch does not raise the outlier flag
PatchRowNoOutlierFlag(recs, idx_, c) ==
  IF SpikeCondition(recs, idx_, c)
  THEN LET prev_price == _as_valid_price(Get(recs[idx_ - 1], c.price_key))
           next_price == _as_valid_price(Get(recs[idx_ + 1], c.price_key))
           r1 == Put(recs[idx_], c.price_key, NeighborMean(prev_price, next_price))
       IN  [recs EXCEPT ![idx_] = Put(r1, c.patch_flag_key, TRUE)]
  ELSE recs

\* variant: the patch raises the flags and leaves the price as it was
PatchRowKeepsPrice(recs, idx_, c) ==
  IF SpikeCondition(recs, idx_, c)
  THEN LET r2 == Put(recs[idx_], c.outlier_key, TRUE)
       IN  [recs EXCEPT ![idx_] = Put(r2, c.patch_flag_key, TRUE)]
  ELSE recs

\* body of the spike-patch loop for one interior row (lines 336-367)
PatchRow(recs, idx_, c) ==
  IF SpikeCondition(recs, idx_, c)
  THEN LET prev_price == _as_valid_price(Get(recs[idx_ - 1], c.price_key))
           next_price == _as_valid_price(Get(recs[idx_ + 1], c.price_key))
           r1 == Put(recs[idx_], c.price_key, NeighborMean(prev_price, next_price))
           r2 == Put(r1, c.outlier_key, TRUE)
       IN  [recs EXCEPT ![idx_] = Put(r2, c.patch_flag_key, TRUE)]
  ELSE recs

\* `for idx in range(1, len(records) - 1)` of one series, from row i on
RECURSIVE PatchLoop(_, _, _)
PatchLoop(recs, c, i) ==
  IF i > Len(recs) - 1 THEN recs
  ELSE PatchLoop(PatchRow(recs, i, c), c, i + 1)

\* `for row in records: row.setdefault(patch_flag_key, False)`
PatchFlagDefaults(recs, c) ==
  [i \in 1..Len(recs) |-> SetDefault(recs[i], c.patch_flag_key, FALSE)]

\* the whole function: both series in the order of configs
_patch_single_minute_uniswap_spikes(recs) ==
  LET s1 == PatchLoop(PatchFlagDefaults(recs, configs[1]), configs[1], 2)
  IN  PatchLoop(PatchFlagDefaults(s1, configs[2]), configs[2], 2)

\* ------------------------------------------------------------ the state
VARIABLES
  aligned_rows,       \* merge_aligned_sources output, never mutated
  records,            \* rows_to_records(aligned_rows), cleaned in place
  pc,                 \* "ff", "patch", "done"
  cfg,                \* index into configs of the series being processed
  idx,                \* 1-based index of the next row of the current loop
  last_price,         \* accumulator of the forward-fill loop
  last_trade_minute,
  args,               \* arguments of the function call in progress
  frame,              \* its local variables
  result              \* its outcome: not yet, a returned value or a raise

vars == <<aligned_rows, records, pc, cfg, idx, last_price, last_trade_minute,
          args, frame, result>>

\* the variables of the cleaning pass and those of a single function call
cleaning == <<aligned_rows, records, cfg, idx, last_price, last_trade_minute>>
call == <<args, frame, result>>

\* no function call in progress
NoCall ==
  /\ args = <<>>
  /\ frame = <<>>
  /\ result = <<>>

\* no cleaning pass in progress
NoCleaning ==
  /\ aligned_rows = <<>>
  /\ records = <<>>
  /\ cfg = 0
  /\ idx = 0
  /\ last_price = None
  /\ last_trade_minute = None

\* one merged row: minute_utc plus the fields the sources supplied
MergedRow(minute, u5, u30, cex) ==
  LET keys == {"minute_utc"}
              \cup (IF u5 = Absent THEN {} ELSE {"uniswap5_token0_price"})
              \cup (IF u30 = Absent THEN {} ELSE {"uniswap30_token0_price"})
              \cup (IF cex = Absent THEN {} ELSE {"coinbase_close"})
  IN  [k \in keys |->
         IF k = "minute_utc" THEN minute
         ELSE IF k = "uniswap5_token0_price" THEN u5
         ELSE IF k = "uniswap30_token0_price" THEN u30
         ELSE cex]

\* merged timelines of n contiguous minutes with raw values from the sets
MergedTimelines(n, U5, U30T, Cex) ==
  { [i \in 1..n |-> MergedRow(i - 1, f[i][1], g[i], f[i][2])] :
      f \in [1..n -> U5 \X Cex], g \in U30T }

InitWith(U5, Cex, maxRows) ==
  /\ \E n \in 0..maxRows :
       aligned_rows \in MergedTimelines(n, U5, U30Timelines(n), Cex)
  /\ records = aligned_rows
  /\ pc = "ff"
  /\ cfg = 1
  /\ idx = 1
  /\ last_price = None
  /\ last_trade_minute = None
  /\ NoCall

Init == InitWith(U5Values, CexValues, MaxRows)

\* one iteration of `for row in records` of _forward_fill_uniswap_mid_prices
FfRow ==
  /\ pc = "ff"
  /\ idx <= Len(records)
  /\ LET out == ForwardFillRow(records, idx, configs[cfg], last_price,
                               last_trade_minute)
     IN  /\ records' = [records EXCEPT ![idx] = out.row]
         /\ last_price' = out.last_price
         /\ last_trade_minute' = out.last_trade_minute
  /\ idx' = idx + 1
  /\ UNCHANGED <<aligned_rows, pc, cfg, call>>

\* next iteration of `for price_key, age_key, outlier_key in configs`
FfNextSeries ==
  /\ pc = "ff"
  /\ idx > Len(records)
  /\ cfg < Len(configs)
  /\ cfg' = cfg + 1
  /\ idx' = 1
  /\ last_price' = None
  /\ last_trade_minute' = None
  /\ UNCHANGED <<aligned_rows, records, pc, call>>

\* the setdefault loop and the return of the forward-fill function; the
\* caller then enters _patch_single_minute_uniswap_spikes
FfDefaults ==
  /\ pc = "ff"
  /\ idx > Len(records)
  /\ cfg = Len(configs)
  /\ records' = [i \in 1..Len(records) |-> FillDefaults(records[i])]
  /\ pc' = "patch"
  /\ cfg' = 1
  /\ idx' = 0
  /\ UNCHANGED <<aligned_rows, last_price, last_trade_minute, call>>

\* `for row in records: row.setdefault(patch_flag_key, False)`
PatchSetDefault ==
  /\ pc = "patch"
  /\ idx = 0
  /\ records' = PatchFlagDefaults(records, configs[cfg])
  /\ idx' = 2
  /\ UNCHANGED <<aligned_rows, pc, cfg, last_price, last_trade_minute, call>>

\* one iteration of `for idx in range(1, len(records) - 1)`
PatchStep ==
  /\ pc = "patch"
  /\ idx >= 2
  /\ idx <= Len(records) - 1
  /\ records' = PatchRow(records, idx, configs[cfg])
  /\ idx' = idx + 1
  /\ UNCHANGED <<aligned_rows, pc, cfg, last_price, last_trade_minute, call>>

PatchNextSeries ==
  /\ pc = "patch"
  /\ idx >= 2
  /\ idx > Len(records) - 1
  /\ cfg < Len(configs)
  /\ cfg' = cfg + 1
  /\ idx' = 0
  /\ UNCHANGED <<aligned_rows, records, pc, last_price, last_trade_minute, call>>

PatchDone ==
  /\ pc = "patch"
  /\ idx >= 2
  /\ idx > Len(records) - 1
  /\ cfg = Len(configs)
  /\ pc' = "done"
  /\ UNCHANGED <<aligned_rows, records, cfg, idx, last_price, last_trade_minute, call>>

Next ==
  \/ FfRow
  \/ FfNextSeries
  \/ FfDefaults
  \/ PatchSetDefault
  \/ PatchStep
  \/ PatchNextSeries
  \/ PatchDone

Spec == Init /\ [][Next]_vars

InitSpike == InitWith(SpikeU5Values, SpikeCexValues, SpikeRows)

SpecSpike == InitSpike /\ [][Next]_vars

\* =================================================================
\* Properties
\* =================================================================
Rows == 1..Len(records)

PriceIn(recs, i, s) == Get(recs[i], configs[s].price_key)

AgeIn(recs, i, s) == Get(recs[i], configs[s].age_key)

OutlierFlagIn(recs, i, s) ==
  /\ configs[s].outlier_key \in DOMAIN recs[i]
  /\ recs[i][configs[s].outlier_key]

PatchFlagIn(recs, i, s) ==
  /\ configs[s].patch_flag_key \in DOMAIN recs[i]
  /\ recs[i][configs[s].patch_flag_key]

Price(i, s) == PriceIn(records, i, s)

Age(i, s) == AgeIn(records, i, s)

OutlierFlag(i, s) == OutlierFlagIn(records, i, s)

PatchFlag(i, s) == PatchFlagIn(records, i, s)

\* the valid price the source observed at row i, None when there is none
Observed(i, s) == _as_valid_price(Get(aligned_rows[i], configs[s].price_key))

\* the valid reference price of row i, None when there is none
Reference(i) == _as_valid_price(Get(aligned_rows[i], "coinbase_close"))

Minute(i) == aligned_rows[i]["minute_utc"]

\* the forward-fill loop of series s has processed row i and no later pass
\* has touched the series yet
Screened(i, s) ==
  /\ pc = "ff"
  /\ i \in Rows
  /\ cfg > s \/ (cfg = s /\ i < idx)

\* row i holds an accepted observation: observed, valid and not flagged
Accepted(i, s) == Observed(i, s) # None /\ ~OutlierFlag(i, s)

\* rows before i that hold an accepted observation
PriorAccepted(i, s) == {j \in 1..(i - 1) : Accepted(j, s)}

\* the latest row before i with an accepted observation
LastAccepted(i, s) ==
  CHOOSE j \in PriorAccepted(i, s) : \A k \in PriorAccepted(i, s) : k <= j

\* C1: after the forward-fill loop has processed a row that has no accepted
\* observation of its own while an earlier row of the series has one, the
\* row's price is the price accepted at the latest such row and its age is
\* the number of minutes elapsed since that row's minute, never negative.
C1_CarryForward ==
  \A s \in Series : \A i \in Rows :
    (Screened(i, s) /\ ~Accepted(i, s) /\ PriorAccepted(i, s) # {}) =>
      LET j == LastAccepted(i, s)
      IN  /\ Price(i, s) = Observed(j, s)
          /\ Age(i, s) = Minute(i) - Minute(j)
          /\ Age(i, s) >= 0

\* a carried row two minutes after the accepted observation
C1_Witness ==
  \E s \in Series : \E i \in Rows :
    /\ Screened(i, s) /\ ~Accepted(i, s) /\ PriorAccepted(i, s) # {}
    /\ Age(i, s) = 2
    /\ Observed(i, s) # None

\* the forward-fill loop of series s has processed row i (the patch pass may
\* have run as well)
Processed(i, s) == i \in Rows /\ (Screened(i, s) \/ pc \in {"patch", "done"})

\* row i holds a valid observed price that passed the outlier screening: it
\* is unflagged, or flagged only by the later spike patch
PassedScreening(i, s) ==
  Observed(i, s) # None /\ (~OutlierFlag(i, s) \/ PatchFlag(i, s))

\* C2: once the forward-fill loop has processed a row, and in the cleaned
\* output, its age is 0 exactly when the row had a valid observed price
\* that passed outlier screening, and otherwise the age is null or at
\* least 1.
C2_AgeZeroIffAccepted ==
  \A s \in Series : \A i \in Rows :
    Processed(i, s) =>
      /\ (Age(i, s) = 0) <=> PassedScreening(i, s)
      /\ ~PassedScreening(i, s) => (Age(i, s) = None \/ Age(i, s) >= 1)

\* a series with an accepted row, a carried row and a null-age row
C2_Witness ==
  \E s \in Series : \E i, j, k \in Rows :
    /\ pc = "done"
    /\ Age(i, s) = None /\ Age(j, s) = 0 /\ Age(k, s) >= 1
    /\ OutlierFlag(k, s)

\* the observed price of row i is valid and more than 1.5x or less than 0.5x
\* the valid reference price of the same minute
FarFromReference(i, s) ==
  /\ Observed(i, s) # None
  /\ Reference(i) # None
  /\ \/ 2 * Observed(i, s) > 3 * Reference(i)
     \/ 2 * Observed(i, s) < Reference(i)

\* the forward-fill loop is about to process row idx of series cfg
AtForwardFillRow == pc = "ff" /\ idx <= Len(records)

C3_Flagged ==
  \A s \in Series : \A i \in Rows :
    (Screened(i, s) /\ FarFromReference(i, s)) =>
      /\ OutlierFlag(i, s)
      /\ PriorAccepted(i, s) # {} =>
           /\ Price(i, s) = Observed(LastAccepted(i, s), s)
           /\ Age(i, s) = Minute(i) - Minute(LastAccepted(i, s))

C3_StateKept ==
  (AtForwardFillRow /\ FarFromReference(idx, cfg)) =>
     /\ last_price' = last_price
     /\ last_trade_minute' = last_trade_minute
     /\ OutlierFlagIn(records', idx, cfg)
     /\ last_price # None =>
          /\ PriceIn(records', idx, cfg) = last_price
          /\ AgeIn(records', idx, cfg) = Minute(idx) - last_trade_minute

\* the accumulator of the loop is the latest accepted observation
C3_StateIsLastAccepted ==
  AtForwardFillRow =>
    IF PriorAccepted(idx, cfg) = {}
    THEN last_price = None /\ last_trade_minute = None
    ELSE /\ last_price = Observed(LastAccepted(idx, cfg), cfg)
         /\ last_trade_minute = Minute(LastAccepted(idx, cfg))

\* C3: a valid DEX price more than 1.5x or less than 0.5x the valid
\* same-minute reference price is flagged as an outlier and does not advance
\* the forward-fill state: last_price and last_trade_minute keep their
\* values (which are those of the latest accepted observation, so later rows
\* are carried from and jump-compared against it), and when an accepted
\* price exists the flagged row outputs it with its elapsed age.
C3_ReferenceOutlierKeepsState ==
  /\ [](C3_Flagged /\ C3_StateIsLastAccepted)
  /\ [][C3_StateKept]_vars

\* a flagged row after an accepted one, followed by a row carried from the
\* accepted one
C3_Witness ==
  \E s \in Series : \E i \in Rows :
    /\ i + 1 \in Rows
    /\ Screened(i + 1, s)
    /\ FarFromReference(i, s)
    /\ OutlierFlag(i, s)
    /\ PriorAccepted(i, s) # {}
    /\ Age(i + 1, s) = Age(i, s) + 1
    /\ Price(i + 1, s) = Price(i, s)

\* C4: after the forward-fill loop has processed a row, its outlier flag is
\* true exactly when the row has a valid observed price and either a valid
\* reference price exists with observed/reference outside [0.5, 1.5], or an
\* accepted price exists with observed/accepted outside [1/10, 10]; a ratio
\* on a bound is inside, and a row with no observed price is not flagged.
C4_OutlierFlagExact ==
  \A s \in Series : \A i \in Rows :
    Screened(i, s) =>
      ( OutlierFlag(i, s) <=>
          /\ Observed(i, s) # None
          /\ \/ /\ Reference(i) # None
                /\ \/ 2 * Observed(i, s) < Reference(i)
                   \/ 2 * Observed(i, s) > 3 * Reference(i)
             \/ /\ PriorAccepted(i, s) # {}
                /\ LET last == Observed(LastAccepted(i, s), s)
                   IN  \/ 10 * Observed(i, s) < last
                       \/ Observed(i, s) > 10 * last )

\* a row exactly on the upper reference bound flagged by the jump alone,
\* then a row exactly on the upper jump bound that is accepted
C4_Witness ==
  \E s \in Series : \E i, j \in Rows :
    /\ Screened(i, s) /\ Screened(j, s) /\ i < j
    /\ Reference(i) # None /\ 2 * Observed(i, s) = 3 * Reference(i)
    /\ OutlierFlag(i, s)
    /\ PriorAccepted(j, s) # {}
    /\ Observed(j, s) = 10 * Observed(LastAccepted(j, s), s)
    /\ ~OutlierFlag(j, s)

\* C5: after the forward-fill loop has processed a row that lies before the
\* first accepted observation of its series, the row has a null age and a
\* null price, whatever raw value the source supplied.
C5_NullBeforeFirstAccepted ==
  \A s \in Series : \A i \in Rows :
    (Screened(i, s) /\ ~Accepted(i, s) /\ PriorAccepted(i, s) = {}) =>
      /\ Age(i, s) = None
      /\ Price(i, s) = None

\* the spike-patch loop is about to visit interior row idx of series cfg
AtPatchRow == pc = "patch" /\ idx >= 2 /\ idx <= Len(records) - 1

\* row i has age 0, its neighbours hold valid prices within 3% of each
\* other and its price differs from both by at least 20%
JumpAndRevert(i, s) ==
  LET p == _as_valid_price(Price(i - 1, s))
      c == Price(i, s)
      n == _as_valid_price(Price(i + 1, s))
  IN  /\ Age(i, s) = 0
      /\ p # None /\ n # None
      /\ 100 * Max2(p, n) <= 103 * Min2(p, n)
      /\ 100 * Max2(c, p) >= 120 * Min2(c, p)
      /\ 100 * Max2(c, n) >= 120 * Min2(c, n)

C6_Step ==
  (AtPatchRow /\ JumpAndRevert(idx, cfg)) =>
     /\ 2 * PriceIn(records', idx, cfg)
          = Price(idx - 1, cfg) + Price(idx + 1, cfg)
     /\ OutlierFlagIn(records', idx, cfg)
     /\ PatchFlagIn(records', idx, cfg)

\* C6: when the spike-patch loop visits an interior row whose age is 0,
\* whose neighbours hold valid prices within 3% of each other and whose price
\* differs from both neighbours by at least 20%, the row's price becomes the
\* arithmetic mean of the two neighbour prices as they stand at the visit
\* and its outlier flag and spike-patch flag become true.
C6_SpikePatched == [][C6_Step]_vars

\* a patched row between two different neighbour prices
C6_Witness ==
  /\ pc = "patch"
  /\ idx >= 3
  /\ PatchFlag(idx - 1, cfg)
  /\ OutlierFlag(idx - 1, cfg)
  /\ Price(idx - 2, cfg) # Price(idx, cfg)
  /\ 2 * Price(idx - 1, cfg) = Price(idx - 2, cfg) + Price(idx, cfg)

\* first row, last row, or a row whose age is not 0
NeverPatchable(i, s) == i = 1 \/ i = Len(records) \/ Age(i, s) # 0

C7_Step ==
  pc = "patch" =>
    \A s \in Series : \A i \in Rows :
      LET visiting == AtPatchRow /\ i = idx /\ s = cfg
          exempt == NeverPatchable(i, s) \/ ~JumpAndRevert(i, s)
      IN  /\ AgeIn(records', i, s) = Age(i, s)
          /\ (~visiting \/ exempt) =>
               /\ PriceIn(records', i, s) = Price(i, s)
               /\ OutlierFlagIn(records', i, s) = OutlierFlag(i, s)
               /\ PatchFlagIn(records', i, s) = PatchFlag(i, s)
          /\ (visiting /\ exempt) => ~PatchFlagIn(records', i, s)
          /\ NeverPatchable(i, s) => ~PatchFlagIn(records', i, s)

C7_Final ==
  pc = "done" =>
    \A s \in Series : \A i \in Rows :
      /\ configs[s].patch_flag_key \in DOMAIN records[i]
      /\ NeverPatchable(i, s) => ~PatchFlag(i, s)

\* C7: no step of the spike-patch pass changes an age; a step changes the
\* price, outlier flag or spike-patch flag of a row only when it visits that
\* row and the row is interior, has age 0 and meets the jump-and-revert
\* condition; so the first row, the last row, rows whose age is not 0 and
\* visited rows that do not meet the condition keep price, age and outlier
\* flag and end with a spike-patch flag that is present and false.
C7_PatchFrame == [][C7_Step]_vars /\ [](C7_Final)

\* at the end: an unpatched age-0 interior row that jumped against its left
\* neighbour only, next to a carried row
C7_Witness ==
  /\ pc = "done"
  /\ \E s \in Series : \E i \in Rows :
       /\ i > 1 /\ i + 1 < Len(records)
       /\ Age(i, s) = 0
       /\ ~PatchFlag(i, s)
       /\ 100 * Price(i, s) >= 120 * Price(i - 1, s)
       /\ Price(i - 1, s) > 0
       /\ Age(i + 1, s) = 1

\* C10: in every row and for each series, a true spike-patch flag comes with
\* a true outlier flag.
C10_PatchImpliesOutlier ==
  \A s \in Series : \A i \in Rows : PatchFlag(i, s) => OutlierFlag(i, s)

\* the cleaning is complete and a row is patched
C10_Witness ==
  /\ pc = "done"
  /\ \E s \in Series : \E i \in Rows : PatchFlag(i, s) /\ OutlierFlag(i, s)

\* the forward-fill function has returned and the patch pass not yet begun
ForwardFillReturned == pc = "patch" /\ cfg = 1 /\ idx = 0

\* price, age and outlier flag of both series in row i of recs
Screening(recs, i) ==
  [s \in Series |->
     <<PriceIn(recs, i, s), AgeIn(recs, i, s), OutlierFlagIn(recs, i, s)>>]

\* C8: the forward-fill pass is causal.  For every k, the price, age and
\* outlier flag it writes in the first k rows are those it writes when it is
\* given the first k merged rows alone; hence two merged-row sequences that
\* agree on their first k rows get identical outputs in those rows, and the
\* output of row i does not depend on any later row.
C8_Causal ==
  ForwardFillReturned =>
    \A k \in 0..Len(aligned_rows) :
      LET alone == _forward_fill_uniswap_mid_prices(SubSeq(aligned_rows, 1, k))
      IN  \A i \in 1..k : Screening(records, i) = Screening(alone, i)

\* a pass over three rows whose last row differs from the row before it and
\* whose first row was accepted without a valid reference price
C8_Witness ==
  /\ ForwardFillReturned
  /\ Len(records) = 3
  /\ aligned_rows[3]["coinbase_close"] # aligned_rows[2]["coinbase_close"]
  /\ Reference(1) = None
  /\ Age(1, 1) = 0
  /\ OutlierFlag(2, 1)

\* the merged rows without the raw price of the series other than s
WithoutOther(rows, s) ==
  [i \in 1..Len(rows) |->
     [k \in DOMAIN rows[i] \ {configs[3 - s].price_key} |-> rows[i][k]]]

\* the keys the cleaning of series s writes
OwnKeys(s) ==
  { configs[s].price_key, configs[s].age_key, configs[s].outlier_key,
    configs[s].patch_flag_key }

\* price, age, outlier flag and spike-patch flag of series s in row i of recs
Cleaned(recs, i, s) ==
  <<PriceIn(recs, i, s), AgeIn(recs, i, s), OutlierFlagIn(recs, i, s),
    PatchFlagIn(recs, i, s)>>

C9_Independent ==
  pc = "done" =>
    \A s \in Series :
      LET alone == _patch_single_minute_uniswap_spikes(
                     _forward_fill_uniswap_mid_prices(
                       WithoutOther(aligned_rows, s)))
      IN  \A i \in Rows : Cleaned(records, i, s) = Cleaned(alone, i, s)

C9_Frame ==
  \A i \in Rows : \A k \in DOMAIN records[i] \ OwnKeys(cfg) :
    /\ k \in DOMAIN records'[i]
    /\ records'[i][k] = records[i][k]

\* C9: the two series are cleaned independently.  No step that works on one
\* series changes a field of the other series, the reference price or the
\* minute; and the cleaned price, age, outlier flag and spike-patch flag of
\* a series are those obtained when the other series' raw prices are
\* removed from the input, hence the same for every content of the other
\* series.
C9_SeriesIndependent == [](C9_Independent) /\ [][C9_Frame]_vars

\* both series hold observations; the 5 bps series has a flagged and a
\* patched row while the 30 bps series is carried forward
C9_Witness ==
  /\ pc = "done"
  /\ \E i, j, k \in Rows :
       /\ OutlierFlag(i, 1) /\ ~PatchFlag(i, 1)
       /\ PatchFlag(j, 1)
       /\ Age(k, 2) >= 1

\* rows before i whose age in series s is 0
PriorFresh(i, s) == {j \in 1..(i - 1) : Age(j, s) = 0}

\* the nearest row before i whose age in series s is 0
LastFresh(i, s) ==
  CHOOSE j \in PriorFresh(i, s) : \A k \in PriorFresh(i, s) : k <= j

\* C27: when the cleaning is complete, every row of a series whose age is
\* above 0 has an earlier row of age 0 in that series and holds the final
\* price of the nearest one; and no spike-patched row is followed by a row
\* that carries its value forward.
C27_CarriedPriceIsFinal ==
  pc = "done" =>
    \A s \in Series : \A i \in Rows :
      /\ Age(i, s) > 0 =>
           /\ PriorFresh(i, s) # {}
           /\ Price(i, s) = Price(LastFresh(i, s), s)
      /\ (PatchFlag(i, s) /\ i < Len(records)) => ~(Age(i + 1, s) > 0)

\* the cleaning is complete, a row of the series was patched and a later
\* row carries the price of the observation before it
C27_Witness ==
  /\ pc = "done"
  /\ \E s \in Series : \E j, i \in Rows :
       /\ PatchFlag(j, s)
       /\ j < i
       /\ Age(i, s) >= 1
       /\ Price(i, s) = Price(i - 1, s)

\* C28: in every state and for each series, no two adjacent rows are both
\* spike-patched.
C28_NoAdjacentPatches ==
  \A s \in Series : \A i \in Rows :
    i < Len(records) => ~(PatchFlag(i, s) /\ PatchFlag(i + 1, s))

\* the cleaning is complete; a row was patched and its right neighbour, an
\* interior row of age 0, differs by at least 20% from the price that was
\* observed in the patched row, which is within 3% of the row after
C28_Witness ==
  /\ pc = "done"
  /\ \E s \in Series : \E i \in Rows :
       /\ i + 2 <= Len(records)
       /\ PatchFlag(i, s)
       /\ Age(i + 1, s) = 0
       /\ ~PatchFlag(i + 1, s)
       /\ Price(i + 2, s) > 0
       /\ 100 * Max2(Observed(i, s), Price(i + 1, s))
            >= 120 * Min2(Observed(i, s), Price(i + 1, s))
       /\ 100 * Max2(Observed(i, s), Price(i + 2, s))
            <= 103 * Min2(Observed(i, s), Price(i + 2, s))

\* =================================================================
\* Function calls: every call below runs from its arguments (args) through
\* its local variables (frame) to its outcome (result)

Pending == [kind |-> "pending", value |-> None]

Returned(v) == [kind |-> "returned", value |-> v]

\* an exception of the given class leaves the function
Raised(e) == [kind |-> "raised", value |-> e]

\* a dict without one key
Without(row, k) == [x \in DOMAIN row \ {k} |-> row[x]]

\* ------------------------------------------------------------ datetimes
\* A datetime is its wall-clock second count and its UTC offset in seconds
\* (None for a naive datetime).  An aware UTC datetime is written as its
\* instant, the integer number of seconds.
Datetime(wall, utcoffset) ==
  [type |-> "datetime", wall |-> wall, utcoffset |-> utcoffset]

\* what datetime.fromisoformat makes of a text that is not ISO-8601: it
\* raises ValueError
Unparseable == [type |-> "unparseable"]

\* a string, written as what datetime.fromisoformat makes of it
Str(parsed) == [type |-> "str", parsed |-> parsed]

\* a value that is neither a str nor a datetime
Other == [type |-> "int"]

SecondsPerMinute == 60

to_utc(ts) ==
  IF ts.utcoffset = None THEN ts.wall ELSE ts.wall - ts.utcoffset

floor_to_utc_minute(instant) == instant - (instant % SecondsPerMinute)

normalize_timestamp_to_minute(ts) == floor_to_utc_minute(to_utc(ts))

\* ------------------------------------------- align_records_to_minute_index
MaxAlignRecords == 3

timestamp_key == "timestamp_utc"

\* the timestamps a source record may carry: naive, UTC and offset datetimes,
\* ISO strings, an unparseable string and a value of another type
TimestampValues ==
  { Datetime(10, None), Datetime(20, 0), Datetime(70, 60),
    Str(Datetime(70, 0)), Datetime(130, 0), Str(Unparseable), Other }

\* the choice of a record that has no timestamp key at all
NoTimestamp == [type |-> "missing"]

\* the i-th record of a source: a price that identifies the record, under
\* the given timestamp if any
SourceRecord(i, ts) ==
  [k \in {"price"} \cup (IF ts = NoTimestamp THEN {} ELSE {timestamp_key}) |->
     IF k = timestamp_key THEN ts ELSE 100 + i]

RecordLists(n) ==
  { [i \in 1..n |-> SourceRecord(i, f[i])] :
      f \in [1..n -> TimestampValues \cup {NoTimestamp}] }

MinuteIndexes == { <<>>, <<0>>, <<0, 60>> }

DuplicatePolicies == { "last", "first", "bad" }

IndexMembers(minute_index) == { minute_index[i] : i \in 1..Len(minute_index) }

ValidPoliciesLenient == { "last", "first", "bad" }

\* `{"last", "first"}` of the policy check
ValidPolicies == { "last", "first" }

\* the three-way branch on the type of record[timestamp_key]: the parsed
\* datetime, or the exception class the branch raises
ParseRecordTimestamp(record) ==
  IF timestamp_key \notin DOMAIN record THEN Raised("KeyError")
  ELSE LET raw_ts == record[timestamp_key]
       IN  IF raw_ts.type = "str"
             THEN IF raw_ts.parsed = Unparseable THEN Raised("ValueError")
                  ELSE Returned(raw_ts.parsed)
           ELSE IF raw_ts.type = "datetime" THEN Returned(raw_ts)
           ELSE Raised("ValueError")

AlignStoreFlipped(normalized, minute, payload, duplicate_policy) ==
  IF minute \notin DOMAIN normalized THEN Put(normalized, minute, payload)
  ELSE IF duplicate_policy = "first" THEN Put(normalized, minute, payload)
  ELSE normalized

\* the tail of the loop body: store the payload of a record in the index
AlignStore(normalized, minute, payload, duplicate_policy) ==
  IF minute \notin DOMAIN normalized THEN Put(normalized, minute, payload)
  ELSE IF duplicate_policy = "last" THEN Put(normalized, minute, payload)
  ELSE normalized

AlignInit ==
  /\ NoCleaning
  /\ pc = "align_policy"
  /\ \E n \in 0..MaxAlignRecords :
       \E recs \in RecordLists(n), mi \in MinuteIndexes,
          dp \in DuplicatePolicies :
         args = [minute_index |-> mi, records |-> recs,
                 duplicate_policy |-> dp]
  /\ frame = <<>>
  /\ result = Pending

\* `if duplicate_policy not in {"last", "first"}: raise ValueError`
AlignCheckPolicy ==
  /\ pc = "align_policy"
  /\ IF args.duplicate_policy \notin ValidPolicies
       THEN /\ result' = Raised("ValueError")
            /\ pc' = "raised"
            /\ UNCHANGED frame
       ELSE /\ frame' = [normalized |-> <<>>, next |-> 1]
            /\ pc' = "align_loop"
            /\ UNCHANGED result
  /\ UNCHANGED <<args, cleaning>>

\* one iteration of `for record in records`
AlignRecord ==
  /\ pc = "align_loop"
  /\ frame.next <= Len(args.records)
  /\ LET record == args.records[frame.next]
         parsed == ParseRecordTimestamp(record)
     IN  IF parsed.kind = "raised"
           THEN /\ result' = parsed
                /\ pc' = "raised"
                /\ UNCHANGED frame
           ELSE LET minute == normalize_timestamp_to_minute(parsed.value)
                IN  /\ frame' =
                         [normalized |->
                            IF minute \notin IndexMembers(args.minute_index)
                              THEN frame.normalized
                              ELSE AlignStore(frame.normalized, minute,
                                              Without(record, timestamp_key),
                                              args.duplicate_policy),
                          next |-> frame.next + 1]
                    /\ UNCHANGED <<pc, result>>
  /\ UNCHANGED <<args, cleaning>>

\* `return normalized`
AlignReturn ==
  /\ pc = "align_loop"
  /\ frame.next > Len(args.records)
  /\ result' = Returned(frame.normalized)
  /\ pc' = "returned"
  /\ UNCHANGED <<args, frame, cleaning>>

AlignNext ==
  \/ AlignCheckPolicy
  \/ AlignRecord
  \/ AlignReturn

SpecAlign == AlignInit /\ [][AlignNext]_vars

\* ---- properties of align_records_to_minute_index

\* the records of the call whose timestamp floors to the minute
Flooring(m) ==
  { i \in 1..Len(args.records) :
      LET parsed == ParseRecordTimestamp(args.records[i])
      IN  /\ parsed.kind = "returned"
          /\ normalize_timestamp_to_minute(parsed.value) = m }

Least(S) == CHOOSE i \in S : \A j \in S : i <= j

Greatest(S) == CHOOSE i \in S : \A j \in S : i >= j

\* C11: when align_records_to_minute_index returns, the keys of the map are
\* exactly the minutes of the index to which at least one record floors
\* (records flooring elsewhere are dropped), and the payload of such a minute
\* is the record, less its timestamp, that comes first in input order under
\* policy "first" and last in input order under policy "last", whatever the
\* timestamps of the colliding records.
C11_AlignedMap ==
  pc = "returned" =>
    /\ DOMAIN result.value =
         { m \in IndexMembers(args.minute_index) : Flooring(m) # {} }
    /\ \A m \in DOMAIN result.value :
         result.value[m] =
           Without(args.records[IF args.duplicate_policy = "first"
                                  THEN Least(Flooring(m))
                                  ELSE Greatest(Flooring(m))],
                   timestamp_key)

\* under policy "last" two records collide on minute 0, the later one in
\* input order carrying the earlier timestamp, and a third record floors
\* outside the index and is dropped
C11_Witness ==
  /\ pc = "returned"
  /\ args.duplicate_policy = "last"
  /\ 0 \in DOMAIN result.value
  /\ \E i, j \in Flooring(0) :
       /\ i < j
       /\ to_utc(ParseRecordTimestamp(args.records[i]).value) >
            to_utc(ParseRecordTimestamp(args.records[j]).value)
       /\ result.value[0] = Without(args.records[j], timestamp_key)
  /\ Flooring(120) # {}
  /\ 120 \notin DOMAIN result.value

\* C12: a call of align_records_to_minute_index with a duplicate_policy
\* other than "first" and "last" ends by raising ValueError, and it does so
\* before the loop over the records is entered: no local state exists and no
\* record, well-formed or malformed, has been looked at.
C12_BadPolicyFailsFast ==
  args.duplicate_policy \notin { "last", "first" } =>
    \/ pc = "align_policy" /\ result = Pending
    \/ pc = "raised" /\ result = Raised("ValueError") /\ frame = <<>>

\* the rejected call carried a malformed record and an empty index
C12_Witness ==
  /\ pc = "raised"
  /\ args.duplicate_policy = "bad"
  /\ frame = <<>>
  /\ args.minute_index = <<>>
  /\ \E i \in 1..Len(args.records) :
       ParseRecordTimestamp(args.records[i]).kind = "raised"

\* --------------------------------------------------- merge_aligned_sources
MaxMergeMinutes == 2

SourceNames == { "uniswap", "uniswap_v3" }

FieldNames == { "price", "v3_price" }

\* the canonical index of the first n minutes
MinuteIndex(n) == [i \in 1..n |-> (i - 1) * SecondsPerMinute]

\* a value is tagged with the source, field and minute it was recorded for
ValueOf(source_name, key, minute) == <<source_name, key, minute>>

\* the minute after the index: a source may have a payload there too
MinuteAfter(n) == n * SecondsPerMinute

\* the aligned maps of a source: at some minutes of the index a payload with
\* some of the fields, and possibly a full payload at the minute after it
AlignedMaps(source_name, n) ==
  UNION { { [m \in present \cup after |->
               [key \in (IF m \in present THEN keys[m] ELSE FieldNames) |->
                  ValueOf(source_name, key, m)]] :
              keys \in [present -> (SUBSET FieldNames) \ {{}}] }
          : present \in SUBSET { MinuteIndex(n)[i] : i \in 1..n },
            after \in { {}, {MinuteAfter(n)} } }

\* the key orders of a dict of one or two sources, or of none
SourceOrders ==
  { <<>> }
  \cup { <<s>> : s \in SourceNames }
  \cup { pair \in SourceNames \X SourceNames : pair[1] # pair[2] }

\* the dicts of aligned maps with the given key order
SourceMaps(names, n) ==
  IF Len(names) = 0 THEN { <<>> }
  ELSE IF Len(names) = 1
    THEN { << [name |-> names[1], aligned_map |-> a] >> :
             a \in AlignedMaps(names[1], n) }
  ELSE { << [name |-> names[1], aligned_map |-> a1],
            [name |-> names[2], aligned_map |-> a2] >> :
           a1 \in AlignedMaps(names[1], n), a2 \in AlignedMaps(names[2], n) }

\* f"{source_name}_{key}"
MergedKey(source_name, key) == source_name \o "_" \o key

MergeSourceKeepsFirst(merged_values, source_name, source_values) ==
  [k \in DOMAIN merged_values
         \cup { MergedKey(source_name, key) : key \in DOMAIN source_values } |->
     IF k \in DOMAIN merged_values THEN merged_values[k]
     ELSE source_values[CHOOSE key \in DOMAIN source_values :
                          k = MergedKey(source_name, key)]]

\* `for key, value in source_values.items(): merged_values[...] = value`
MergeSource(merged_values, source_name, source_values) ==
  [k \in DOMAIN merged_values
         \cup { MergedKey(source_name, key) : key \in DOMAIN source_values } |->
     IF \E key \in DOMAIN source_values : k = MergedKey(source_name, key)
       THEN source_values[CHOOSE key \in DOMAIN source_values :
                            k = MergedKey(source_name, key)]
       ELSE merged_values[k]]

\* `aligned_map.get(minute, {})`
SourceValues(aligned_map, minute) ==
  IF minute \in DOMAIN aligned_map THEN aligned_map[minute] ELSE <<>>

\* `for source_name, aligned_map in source_maps.items()` from source number s
RECURSIVE MergeSources(_, _, _, _)
MergeSources(merged_values, source_maps, s, minute) ==
  IF s > Len(source_maps) THEN merged_values
  ELSE MergeSources(
         MergeSource(merged_values, source_maps[s].name,
                     SourceValues(source_maps[s].aligned_map, minute)),
         source_maps, s + 1, minute)

AlignedRow(minute_utc, values) == [minute_utc |-> minute_utc, values |-> values]

MergeInit ==
  /\ NoCleaning
  /\ pc = "merge_loop"
  /\ \E n \in 0..MaxMergeMinutes, names \in SourceOrders :
       \E source_maps \in SourceMaps(names, n) :
         args = [minute_index |-> MinuteIndex(n), source_maps |-> source_maps]
  /\ frame = [rows |-> <<>>, next |-> 1]
  /\ result = Pending

\* one iteration of `for minute in minute_index`
MergeMinute ==
  /\ pc = "merge_loop"
  /\ frame.next <= Len(args.minute_index)
  /\ LET minute == args.minute_index[frame.next]
     IN  frame' = [rows |-> Append(frame.rows,
                                   AlignedRow(minute,
                                              MergeSources(<<>>, args.source_maps,
                                                           1, minute))),
                   next |-> frame.next + 1]
  /\ UNCHANGED <<pc, args, result, cleaning>>

\* `return rows`
MergeReturn ==
  /\ pc = "merge_loop"
  /\ frame.next > Len(args.minute_index)
  /\ result' = Returned(frame.rows)
  /\ pc' = "returned"
  /\ UNCHANGED <<args, frame, cleaning>>

MergeNext ==
  \/ MergeMinute
  \/ MergeReturn

SpecMerge == MergeInit /\ [][MergeNext]_vars

\* ---- properties of merge_aligned_sources

\* the (source number, field) pairs present at a minute
PresentPairs(minute) ==
  { <<s, key>> \in (1..Len(args.source_maps)) \X FieldNames :
      /\ minute \in DOMAIN args.source_maps[s].aligned_map
      /\ key \in DOMAIN args.source_maps[s].aligned_map[minute] }

PairKey(pair) == MergedKey(args.source_maps[pair[1]].name, pair[2])

PairValue(pair, minute) == args.source_maps[pair[1]].aligned_map[minute][pair[2]]

\* one row per minute of the index, in index order
OneRowPerMinute ==
  /\ Len(result.value) = Len(args.minute_index)
  /\ \A i \in 1..Len(args.minute_index) :
       result.value[i].minute_utc = args.minute_index[i]

\* the keys of each row are the names of the pairs present at its minute
KeysArePresentPairs ==
  \A i \in 1..Len(args.minute_index) :
    DOMAIN result.value[i].values =
      { PairKey(pair) : pair \in PresentPairs(args.minute_index[i]) }

\* C13 as stated: one row per minute in index order, whose keys are the
\* names '<source>_<field>' of the pairs present at the minute, each key
\* holding the value of its own source.
C13_EveryPairKeepsItsValue ==
  pc = "returned" =>
    /\ OneRowPerMinute
    /\ KeysArePresentPairs
    /\ \A i \in 1..Len(args.minute_index) :
         \A pair \in PresentPairs(args.minute_index[i]) :
           result.value[i].values[PairKey(pair)] =
             PairValue(pair, args.minute_index[i])

\* C13 amended: merge_aligned_sources returns one row per minute of the
\* index, in index order; the keys of a row are exactly the names
\* '<source>_<field>' of the (source, field) pairs present at its minute, a
\* source absent at the minute contributing none; and the value under a key
\* is that of the last source, in the order of source_maps, with a pair of
\* that name.  Two pairs can share a name, so a key holds its own source's
\* value only when no later source has a pair of the same name.
C13_MergedRows ==
  pc = "returned" =>
    /\ OneRowPerMinute
    /\ KeysArePresentPairs
    /\ \A i \in 1..Len(args.minute_index) :
         \A pair \in PresentPairs(args.minute_index[i]) :
           (\A other \in PresentPairs(args.minute_index[i]) :
              PairKey(other) = PairKey(pair) => other[1] <= pair[1])
             => result.value[i].values[PairKey(pair)] =
                  PairValue(pair, args.minute_index[i])

\* at minute 0 source uniswap's v3_price and source uniswap_v3's price meet
\* under one key, which holds the later source's value; at minute 1 the
\* first source is absent and the row has the second source's keys only
C13_Witness ==
  /\ pc = "returned"
  /\ Len(args.minute_index) = 2
  /\ Len(args.source_maps) = 2
  /\ \E p, q \in PresentPairs(0) :
       /\ p[1] < q[1]
       /\ PairKey(p) = PairKey(q)
       /\ result.value[1].values[PairKey(p)] = PairValue(q, 0)
  /\ 60 \notin DOMAIN args.source_maps[1].aligned_map
  /\ PresentPairs(60) # {}
  /\ PresentPairs(MinuteAfter(2)) # {}

\* ------------------------------------------------------ build_minute_index
MaxHalfMinutes == 5

\* the instants of a window boundary, every half minute, as naive, UTC and
\* offset datetimes
WindowTimes ==
  { Datetime(30 * h, tz) : h \in 0..MaxHalfMinutes, tz \in {None, 0} }
  \cup { Datetime(30 * h + 90, 90) : h \in 0..MaxHalfMinutes }

StopMinuteAlwaysInclusive(end_minute, end_inclusive) == end_minute

\* `stop = end_minute` or `end_minute - timedelta(minutes=1)`
StopMinute(end_minute, end_inclusive) ==
  IF end_inclusive THEN end_minute ELSE end_minute - SecondsPerMinute

EmptyWindowAtStart(stop, start_minute) == stop <= start_minute

\* `if stop < start_minute: return []`
EmptyWindow(stop, start_minute) == stop < start_minute

BuildInit ==
  /\ NoCleaning
  /\ pc = "build_bounds"
  /\ \E s \in WindowTimes, e \in WindowTimes, inclusive \in BOOLEAN :
       args = [start_time_utc |-> s, end_time_utc |-> e,
               end_inclusive |-> inclusive]
  /\ frame = <<>>
  /\ result = Pending

\* the body up to the loop: floor both boundaries, pick stop, return the
\* empty list when stop precedes the start minute
BuildBounds ==
  /\ pc = "build_bounds"
  /\ LET start_minute == floor_to_utc_minute(to_utc(args.start_time_utc))
         end_minute == floor_to_utc_minute(to_utc(args.end_time_utc))
         stop == StopMinute(end_minute, args.end_inclusive)
     IN  IF EmptyWindow(stop, start_minute)
           THEN /\ result' = Returned(<<>>)
                /\ pc' = "returned"
                /\ UNCHANGED frame
           ELSE /\ frame' = [stop |-> stop, minutes |-> <<>>,
                             current |-> start_minute]
                /\ pc' = "build_loop"
                /\ UNCHANGED result
  /\ UNCHANGED <<args, cleaning>>

\* one iteration of `while current <= stop`
BuildAppend ==
  /\ pc = "build_loop"
  /\ frame.current <= frame.stop
  /\ frame' = [frame EXCEPT !.minutes = Append(@, frame.current),
                            !.current = @ + SecondsPerMinute]
  /\ UNCHANGED <<pc, args, result, cleaning>>

\* `return minutes`
BuildReturn ==
  /\ pc = "build_loop"
  /\ frame.current > frame.stop
  /\ result' = Returned(frame.minutes)
  /\ pc' = "returned"
  /\ UNCHANGED <<args, frame, cleaning>>

BuildNext ==
  \/ BuildBounds
  \/ BuildAppend
  \/ BuildReturn

SpecBuild == BuildInit /\ [][BuildNext]_vars

\* ---- properties of build_minute_index

StartInstant == to_utc(args.start_time_utc)

EndInstant == to_utc(args.end_time_utc)

FloorStart == StartInstant - (StartInstant % 60)

FloorEnd == EndInstant - (EndInstant % 60)

Stop == IF args.end_inclusive THEN FloorEnd ELSE FloorEnd - 60

Finished == pc \in { "returned", "raised" }

\* C14: build_minute_index returns, in ascending order, exactly the minute
\* boundaries m with floor(start) <= m <= stop, where stop is floor(end) when
\* end_inclusive and one minute earlier otherwise: the result is strictly
\* increasing, consecutive entries differ by one minute, its length is
\* (stop - floor(start)) / 1 minute + 1, and it is the empty sequence, not
\* an error, when stop precedes floor(start).
C14_MinuteIndex ==
  Finished =>
    /\ result.kind = "returned"
    /\ LET minutes == result.value
       IN  /\ { minutes[i] : i \in 1..Len(minutes) } =
                { m \in FloorStart..Stop : m % 60 = 0 }
           /\ \A i \in 1..(Len(minutes) - 1) :
                /\ minutes[i] < minutes[i + 1]
                /\ minutes[i + 1] - minutes[i] = 60
           /\ Stop >= FloorStart =>
                Len(minutes) = (Stop - FloorStart) \div 60 + 1
           /\ Stop < FloorStart => minutes = <<>>

\* an exclusive window between an offset and a naive datetime, neither on a
\* minute boundary, that yields two minutes
C14_Witness ==
  /\ pc = "returned"
  /\ ~args.end_inclusive
  /\ args.start_time_utc.utcoffset = 90
  /\ args.end_time_utc.utcoffset = None
  /\ StartInstant % 60 # 0
  /\ EndInstant % 60 # 0
  /\ Len(result.value) = 2

\* C15 as stated: build_minute_index fails whenever end is not later than
\* start.
C15_InvertedWindowRaises ==
  (Finished /\ EndInstant <= StartInstant) => result.kind = "raised"

\* C15 amended: build_minute_index has no check of the window and never
\* raises.  When end is not later than start it returns the one-element
\* sequence of floor(start) if both fall in the same minute and the end is
\* inclusive, and the empty sequence otherwise.
C15_InvertedWindowReturns ==
  /\ pc # "raised"
  /\ (Finished /\ EndInstant <= StartInstant) =>
       result = Returned(IF args.end_inclusive /\ FloorEnd = FloorStart
                           THEN << FloorStart >>
                           ELSE <<>>)

\* an inclusive window whose end lies before its start within one minute:
\* the call returns that minute
C15_Witness ==
  /\ pc = "returned"
  /\ EndInstant < StartInstant
  /\ args.end_inclusive
  /\ result.value = << FloorStart >>

\* -------------------------------------------------------- compute_features
\* Prices are integers; basis points are counted in hundredths (5 bps is
\* 500) so that the quotients of the chosen values are exact.
MaxVolRows == 4

MaxVolWindow == 2

MaxBasisRows == 1

BpsScale == 100

WeiPerGwei == 1000000000

\* a value that float() rejects or that is not finite
_to_float(value) == IF value \in {None, NaN, Absent} THEN None ELSE value

\* ((dex_price - cex_price) / cex_price) * 10_000.0
_basis_bps(dex_price, cex_price) ==
  IF dex_price = None \/ cex_price = None \/ cex_price <= 0 THEN None
  ELSE ((dex_price - cex_price) * 10000 * BpsScale) \div cex_price

_gas_gwei(gas_base_fee_wei) ==
  IF gas_base_fee_wei = None \/ gas_base_fee_wei < 0 THEN None
  ELSE gas_base_fee_wei \div WeiPerGwei

_cost_band_proxy_bps(fee_tier_bps, gas_base_fee_wei, gas_weight_bps_per_gwei) ==
  LET gas_gwei == _gas_gwei(gas_base_fee_wei)
  IN  IF gas_gwei = None THEN fee_tier_bps
      ELSE fee_tier_bps + gas_gwei * gas_weight_bps_per_gwei

Abs(x) == IF x < 0 THEN 0 - x ELSE x

_violationSigned(basis_bps, threshold_bps) ==
  IF basis_bps = None THEN <<FALSE, 0>>
  ELSE LET magnitude == Max2(basis_bps - threshold_bps, 0)
       IN  <<magnitude > 0, magnitude>>

\* the pair (indicator, magnitude)
_violation(basis_bps, threshold_bps) ==
  IF basis_bps = None THEN <<FALSE, 0>>
  ELSE LET magnitude == Max2(Abs(basis_bps) - threshold_bps, 0)
       IN  <<magnitude > 0, magnitude>>

VolGuardLate(window, index) == window < 1 \/ index < window + 1

\* `if window < 1 or index < window: return None`, index counted from 0
VolGuard(window, index) == window < 1 \/ index < window

\* a price the loop over the window rejects: null or not positive
VolRejects(price) == price = None \/ price <= 0

\* the log returns of the window, each written as its (prev, curr) pair.
\* prices is the 1-based list, index the 0-based row index.
VolReturns(prices, index, window) ==
  [k \in 1..window |-> [prev |-> prices[index - window + k],
                        curr |-> prices[index - window + k + 1]]]

\* the None of a value whose floats are written as records
Null == [type |-> "NoneType"]

\* statistics.pstdev(returns) * math.sqrt(annualization_minutes), kept as
\* the expression over its inputs
_realized_vol_annualized(prices, index, window, annualization_minutes) ==
  IF VolGuard(window, index) THEN Null
  ELSE LET returns == VolReturns(prices, index, window)
       IN  IF \E k \in 1..window :
                VolRejects(returns[k].prev) \/ VolRejects(returns[k].curr)
             THEN Null
             ELSE [type |-> "float",
                   pstdev_of_log_returns |-> returns,
                   times_sqrt_of |-> annualization_minutes]

\* the body of `for record in aligned_records` after cex_prices.append: the
\* enriched record
Enriched(record, cex_prices, a) ==
  LET cex_price == _to_float(Get(record, "coinbase_close"))
      dex_5 == _to_float(Get(record, "uniswap5_token0_price"))
      dex_30 == _to_float(Get(record, "uniswap30_token0_price"))
      gas_base_fee_wei == _to_float(Get(record, "gas_base_fee_per_gas_wei"))
      basis_5_bps == _basis_bps(dex_5, cex_price)
      basis_30_bps == _basis_bps(dex_30, cex_price)
      implied_band_5_bps ==
        _cost_band_proxy_bps(5 * BpsScale, gas_base_fee_wei,
                             a.gas_weight_bps_per_gwei)
      implied_band_30_bps ==
        _cost_band_proxy_bps(30 * BpsScale, gas_base_fee_wei,
                             a.gas_weight_bps_per_gwei)
      v5 == _violation(basis_5_bps, implied_band_5_bps)
      v30 == _violation(basis_30_bps, implied_band_30_bps)
      row_index == Len(cex_prices) - 1
      computed ==
        [basis_5_bps |-> basis_5_bps,
         basis_30_bps |-> basis_30_bps,
         basis_spread_bps |->
           IF basis_5_bps = None \/ basis_30_bps = None THEN None
           ELSE basis_30_bps - basis_5_bps,
         implied_band_5_bps |-> implied_band_5_bps,
         implied_band_30_bps |-> implied_band_30_bps,
         violation_5 |-> v5[1],
         violation_30 |-> v30[1],
         violation_5_mag_bps |-> v5[2],
         violation_30_mag_bps |-> v30[2],
         realized_vol_annualized |->
           _realized_vol_annualized(cex_prices, row_index,
                                    a.realized_vol_window,
                                    a.annualization_minutes)]
  IN  [k \in DOMAIN record \cup DOMAIN computed |->
         IF k \in DOMAIN computed THEN computed[k] ELSE record[k]]

\* aligned records of n minutes whose fields are drawn from the given sets
FeatureRecords(n, Cex, Dex5, Dex30, Gas) ==
  { [i \in 1..n |-> MergedRow(i - 1, f[i][2], f[i][3], f[i][1]) @@
                    (IF f[i][4] = Absent THEN <<>>
                     ELSE [k \in {"gas_base_fee_per_gas_wei"} |-> f[i][4]])] :
      f \in [1..n -> Cex \X Dex5 \X Dex30 \X Gas] }

FeaturesInitWith(maxRows, Windows, Cex, Dex5, Dex30, Gas) ==
  /\ NoCleaning
  /\ pc = "features_loop"
  /\ \E n \in 0..maxRows, window \in Windows :
       \E recs \in FeatureRecords(n, Cex, Dex5, Dex30, Gas) :
         args = [aligned_records |-> recs,
                 gas_weight_bps_per_gwei |-> 1 * BpsScale,
                 realized_vol_window |-> window,
                 annualization_minutes |-> 525600]
  /\ frame = [output |-> <<>>, cex_prices |-> <<>>, next |-> 1]
  /\ result = Pending

\* one iteration of `for record in aligned_records`
FeaturesRow ==
  /\ pc = "features_loop"
  /\ frame.next <= Len(args.aligned_records)
  /\ LET record == args.aligned_records[frame.next]
         cex_prices == Append(frame.cex_prices,
                              _to_float(Get(record, "coinbase_close")))
     IN  frame' = [output |-> Append(frame.output,
                                     Enriched(record, cex_prices, args)),
                   cex_prices |-> cex_prices,
                   next |-> frame.next + 1]
  /\ UNCHANGED <<pc, args, result, cleaning>>

\* `return output`
FeaturesReturn ==
  /\ pc = "features_loop"
  /\ frame.next > Len(args.aligned_records)
  /\ result' = Returned(frame.output)
  /\ pc' = "returned"
  /\ UNCHANGED <<args, frame, cleaning>>

FeaturesNext ==
  \/ FeaturesRow
  \/ FeaturesReturn

\* series of reference prices, valid and invalid, under several windows
VolInit ==
  FeaturesInitWith(MaxVolRows, 0..MaxVolWindow, {Absent, 0, 10000, 20000},
                   {Absent}, {Absent}, {Absent})

SpecVol == VolInit /\ [][FeaturesNext]_vars

\* rows whose two basis values lie below, on and above the cost bands
BasisInit ==
  FeaturesInitWith(MaxBasisRows, {1}, {Absent, 0, 10000},
                   {Absent, 9993, 9995, 10005, 10006, 10007},
                   {Absent, 10030, 10031, 9968},
                   {Absent, 0 - WeiPerGwei, 0, WeiPerGwei, 2 * WeiPerGwei})

SpecBasis == BasisInit /\ [][FeaturesNext]_vars

\* ---- properties of compute_features

\* the 0-based indices of the rows computed so far
OutputRows == 0..(Len(frame.output) - 1)

RealizedVol(i) == frame.output[i + 1].realized_vol_annualized

IsNull(vol) == vol.type = "NoneType"

\* the reference prices of rows 0..i are all positive
PositiveThrough(i) ==
  \A j \in 0..i : frame.cex_prices[j + 1] # None /\ frame.cex_prices[j + 1] > 0

InFeatures == pc \in { "features_loop", "returned" }

\* C16 as stated: over positive reference prices realized volatility is null
\* for row indices 0 .. window-2 and defined from row index window-1 onward.
C16_DefinedFromWindowMinusOne ==
  (InFeatures /\ args.realized_vol_window >= 1) =>
    \A i \in OutputRows :
      PositiveThrough(i) =>
        (IsNull(RealizedVol(i)) <=> i <= args.realized_vol_window - 2)

\* C16 amended: for a series of rows whose reference prices are all
\* positive and a window of at least 1, realized volatility is null for the
\* first window rows (row indices 0 .. window-1) and is defined exactly from
\* row index window (0-indexed) onward: a window of n log returns needs n+1
\* prices.
C16_DefinedFromWindow ==
  (InFeatures /\ args.realized_vol_window >= 1) =>
    \A i \in OutputRows :
      PositiveThrough(i) =>
        (IsNull(RealizedVol(i)) <=> i <= args.realized_vol_window - 1)

\* four positive prices under a window of 2: rows 0 and 1 are null, rows 2
\* and 3 are defined, row 3 over the returns of rows 1..3
C16_Witness ==
  /\ pc = "returned"
  /\ args.realized_vol_window = 2
  /\ Len(frame.output) = 4
  /\ PositiveThrough(3)
  /\ IsNull(RealizedVol(1))
  /\ ~IsNull(RealizedVol(2))
  /\ RealizedVol(3).pstdev_of_log_returns =
       << [prev |-> frame.cex_prices[2], curr |-> frame.cex_prices[3]],
          [prev |-> frame.cex_prices[3], curr |-> frame.cex_prices[4]] >>
  /\ frame.cex_prices[2] # frame.cex_prices[3]

FeeTiers ==
  { [basis |-> "basis_5_bps", band |-> "implied_band_5_bps",
     violation |-> "violation_5", magnitude |-> "violation_5_mag_bps"],
    [basis |-> "basis_30_bps", band |-> "implied_band_30_bps",
     violation |-> "violation_30", magnitude |-> "violation_30_mag_bps"] }

\* C18: for each fee tier and each computed row, the violation indicator is
\* true exactly when the basis is non-null and its absolute value exceeds
\* the implied band; the magnitude is max(|basis| - band, 0) for a non-null
\* basis; the magnitude is 0 whenever the indicator is false; and a null
\* basis gives indicator false and magnitude 0.
C18_Violation ==
  InFeatures =>
    \A i \in 1..Len(frame.output) : \A tier \in FeeTiers :
      LET row == frame.output[i]
          basis == row[tier.basis]
          band == row[tier.band]
      IN  /\ row[tier.violation] <=> (basis # None /\ Abs(basis) > band)
          /\ basis # None =>
               row[tier.magnitude] =
                 (IF Abs(basis) - band > 0 THEN Abs(basis) - band ELSE 0)
          /\ ~row[tier.violation] => row[tier.magnitude] = 0
          /\ basis = None => (~row[tier.violation] /\ row[tier.magnitude] = 0)

\* one row with a negative 5 bps basis beyond its band, a 30 bps basis
\* exactly on its band, and gas that widens both bands
C18_Witness ==
  /\ pc = "returned"
  /\ Len(frame.output) = 1
  /\ LET row == frame.output[1]
     IN  /\ row.implied_band_5_bps > 5 * BpsScale
         /\ row.basis_5_bps # None
         /\ row.basis_5_bps < 0
         /\ row.violation_5
         /\ row.violation_5_mag_bps > 0
         /\ row.basis_30_bps = row.implied_band_30_bps
         /\ ~row.violation_30
         /\ row.violation_30_mag_bps = 0

\* ------------------------------------------------ _rolling_percentile_rank
MaxPctValues == 4

\* gas-cost values of a series: null or one of three levels
GasUsdValues == { None, 1, 2, 3 }

WindowSizes == 0..3

\* bisect.bisect_left on a sorted list: the 0-based insertion point before
\* any equal entries
bisect_left(a, x) == Cardinality({ i \in 1..Len(a) : a[i] < x })

\* bisect.bisect_right: the 0-based insertion point after any equal entries
bisect_right(a, x) == Cardinality({ i \in 1..Len(a) : a[i] <= x })

\* bisect.insort
insort(a, x) ==
  LET at == bisect_right(a, x)
  IN  SubSeq(a, 1, at) \o <<x>> \o SubSeq(a, at + 1, Len(a))

\* list.pop(idx) with a 0-based idx: the list that remains
pop(a, idx0) == SubSeq(a, 1, idx0) \o SubSeq(a, idx0 + 2, Len(a))

\* variant: the oldest values leave the queue and stay in the sorted window
TrimWindowQueueOnly(window_queue, sorted_window, window_size) ==
  [window_queue |->
     SubSeq(window_queue,
            Max2(1, Len(window_queue) - window_size + 1), Len(window_queue)),
   sorted_window |-> sorted_window]

\* `while len(window_queue) > window_size`: drop the oldest values and take
\* the non-null ones out of the sorted window
RECURSIVE TrimWindow(_, _, _)
TrimWindow(window_queue, sorted_window, window_size) ==
  IF Len(window_queue) <= window_size
    THEN [window_queue |-> window_queue, sorted_window |-> sorted_window]
  ELSE LET removed == Head(window_queue)
           at == bisect_left(sorted_window, removed)
       IN  TrimWindow(
             Tail(window_queue),
             IF removed = None THEN sorted_window
             ELSE IF at < Len(sorted_window) /\ sorted_window[at + 1] = removed
               THEN pop(sorted_window, at)
             ELSE sorted_window,
             window_size)

\* the float rank / len(sorted_window), kept as the fraction
Ratio(num, den) == [type |-> "float", num |-> num, den |-> den]

RankOfExclusive(sorted_window, value) == bisect_left(sorted_window, value)

\* `rank = bisect.bisect_right(sorted_window, value)`
RankOf(sorted_window, value) == bisect_right(sorted_window, value)

PctInit ==
  /\ NoCleaning
  /\ pc = "pct_check"
  /\ \E n \in 0..MaxPctValues, window_size \in WindowSizes :
       \E values \in [1..n -> GasUsdValues] :
         args = [values |-> values, window_size |-> window_size]
  /\ frame = <<>>
  /\ result = Pending

\* `if window_size < 1: raise ValueError`, then the three empty containers
PctCheck ==
  /\ pc = "pct_check"
  /\ IF args.window_size < 1
       THEN /\ result' = Raised("ValueError")
            /\ pc' = "raised"
            /\ UNCHANGED frame
       ELSE /\ frame' = [out |-> <<>>, window_queue |-> <<>>,
                         sorted_window |-> <<>>, next |-> 1]
            /\ pc' = "pct_loop"
            /\ UNCHANGED result
  /\ UNCHANGED <<args, cleaning>>

\* one iteration of `for value in values`
PctValue ==
  /\ pc = "pct_loop"
  /\ frame.next <= Len(args.values)
  /\ LET value == args.values[frame.next]
         trimmed == TrimWindow(Append(frame.window_queue, value),
                               IF value # None
                                 THEN insort(frame.sorted_window, value)
                                 ELSE frame.sorted_window,
                               args.window_size)
         sorted_window == trimmed.sorted_window
     IN  frame' =
           [out |->
              Append(frame.out,
                     IF value = None \/ sorted_window = <<>> THEN Null
                     ELSE Ratio(RankOf(sorted_window, value),
                                Len(sorted_window))),
            window_queue |-> trimmed.window_queue,
            sorted_window |-> sorted_window,
            next |-> frame.next + 1]
  /\ UNCHANGED <<pc, args, result, cleaning>>

\* `return out`
PctReturn ==
  /\ pc = "pct_loop"
  /\ frame.next > Len(args.values)
  /\ result' = Returned(frame.out)
  /\ pc' = "returned"
  /\ UNCHANGED <<args, frame, cleaning>>

PctNext ==
  \/ PctCheck
  \/ PctValue
  \/ PctReturn

SpecPct == PctInit /\ [][PctNext]_vars

\* ---- properties of _rolling_percentile_rank

\* the 1-based rows of the trailing window of row i
TrailingWindow(i) ==
  { j \in 1..i : j > i - args.window_size }

\* the non-null values of the trailing window, as rows
NonNullInWindow(i) == { j \in TrailingWindow(i) : args.values[j] # None }

\* the number of non-null values of the window no greater than the current
Rank(i) ==
  Cardinality({ j \in NonNullInWindow(i) : args.values[j] <= args.values[i] })

InPct == pc \in { "pct_loop", "returned" }

\* C17 as stated: the percentile of a row with a non-null value is
\* rank(current) / window_size, and a null value gets a null percentile.
C17_RankOverWindowSize ==
  InPct =>
    \A i \in 1..Len(frame.out) :
      IF args.values[i] = None THEN frame.out[i] = Null
      ELSE /\ frame.out[i].type = "float"
           /\ frame.out[i].num * args.window_size = Rank(i) * frame.out[i].den

\* C17 amended: for every row whose gas-cost value is non-null the rolling
\* congestion percentile equals rank(current) / n, where rank(current) is
\* the number of non-null values in the trailing window (the last
\* window_size rows, the current one included) that are no greater than the
\* current value and n is the number of non-null values in that window, not
\* the configured window length; rows with a null value get a null
\* percentile.
C17_RankOverNonNull ==
  InPct =>
    \A i \in 1..Len(frame.out) :
      IF args.values[i] = None THEN frame.out[i] = Null
      ELSE /\ frame.out[i].type = "float"
           /\ frame.out[i].num = Rank(i)
           /\ frame.out[i].den = Cardinality(NonNullInWindow(i))

\* a window of three rows that has slid by one and holds a null and a value
\* above the current one: the current row's percentile is 1/2
C17_Witness ==
  /\ pc = "returned"
  /\ args.window_size = 3
  /\ Len(frame.out) = 4
  /\ args.values[2] = None
  /\ args.values[3] > args.values[4]
  /\ args.values[1] < args.values[4]
  /\ args.values[1] # None
  /\ frame.out[4] = Ratio(1, 2)
  /\ frame.out[2] = Null

\* the number of input values processed so far
Consumed == frame.next - 1

\* how often v occurs in the sequence a
Occurrences(a, v) == Cardinality({ i \in 1..Len(a) : a[i] = v })

Ascending(a) == \A i \in 1..(Len(a) - 1) : a[i] <= a[i + 1]

\* C29: after each input value is processed, the window queue holds exactly
\* the last min(i + 1, window_size) input values, nulls included; the sorted
\* structure is ascending and holds the non-null values of the queue, each
\* as often as the queue does; every non-null percentile reported is above 0
\* and at most 1, and is 1 when the current value is the greatest of its
\* window.
C29_WindowInvariant ==
  InPct =>
    LET held == Min2(Consumed, args.window_size)
    IN  /\ frame.window_queue =
             SubSeq(args.values, Consumed - held + 1, Consumed)
        /\ Ascending(frame.sorted_window)
        /\ \A v \in GasUsdValues \ {None} :
             Occurrences(frame.sorted_window, v)
               = Occurrences(frame.window_queue, v)
        /\ Occurrences(frame.sorted_window, None) = 0
        /\ Len(frame.out) = Consumed
        /\ \A i \in 1..Len(frame.out) :
             frame.out[i] # Null =>
               /\ frame.out[i].num > 0
               /\ frame.out[i].num <= frame.out[i].den
               /\ (\A j \in NonNullInWindow(i) :
                     args.values[j] <= args.values[i])
                    => frame.out[i].num = frame.out[i].den

\* a window of two that has slid twice and let a null and one of two equal
\* values go: the queue holds the other one and a greater value, and a row
\* below the greatest value of its window has percentile 1/2
C29_Witness ==
  /\ pc = "pct_loop"
  /\ args.window_size = 2
  /\ Consumed = 4
  /\ args.values[1] = None
  /\ args.values[2] = args.values[3]
  /\ args.values[4] # None
  /\ args.values[4] < args.values[3]
  /\ frame.out[4] = Ratio(1, 2)
  /\ frame.out[3] = Ratio(2, 2)
  /\ frame.sorted_window = << args.values[4], args.values[3] >>

\* ------------------------------------- validate_records, enforce_validation
MaxValidateRows == 2

\* a string that float() and datetime.fromisoformat reject
NotNumeric == 0 - 4

\* a row that is not a dict
NotADict == [type |-> "int"]

IsDict(row) == "type" \notin DOMAIN row

\* the rows of a batch: not a dict, or a dict with a timestamp (valid or
\* not) and possibly a column x that is null, numeric or not numeric
ValidationRows ==
  { NotADict }
  \cup { [k \in {"minute_utc"} \cup (IF x = Absent THEN {} ELSE {"x"}) |->
            IF k = "minute_utc" THEN ts ELSE x] :
         ts \in {0, 60, NotNumeric}, x \in {Absent, None, 5, 50, 90, NotNumeric} }

\* the checks a caller may configure on column x
RequiredColumns == { {}, {"x"} }

HardRange == [min_value |-> 10, max_value |-> None]

WarningRange == [min_value |-> 20, max_value |-> 80]

MissingThresholds == { <<>>, [k \in {"x"} |-> [num |-> 1, den |-> 2]] }

ValidationIssue(severity, code) == [severity |-> severity, code |-> code]

\* _parse_timestamp inside `try ... except Exception`
TimestampIssues(row, previous_ts) ==
  IF "minute_utc" \notin DOMAIN row THEN <<>>
  ELSE IF row["minute_utc"] = NotNumeric
    THEN << ValidationIssue("error", "invalid_timestamp") >>
  ELSE IF previous_ts # None /\ row["minute_utc"] <= previous_ts
    THEN << ValidationIssue("error", "non_monotonic_timestamp") >>
  ELSE <<>>

\* previous_ts after the row
NextPreviousTs(row, previous_ts) ==
  IF "minute_utc" \in DOMAIN row /\ row["minute_utc"] # NotNumeric
    THEN row["minute_utc"]
    ELSE previous_ts

\* one pass of a range loop over its columns
RangeIssues(row, ranges, severity, non_numeric, below, above) ==
  IF "x" \notin DOMAIN ranges THEN <<>>
  ELSE IF "x" \notin DOMAIN row \/ row["x"] = None THEN <<>>
  ELSE IF row["x"] = NotNumeric
    THEN << ValidationIssue(severity, non_numeric) >>
  ELSE (IF ranges["x"].min_value # None /\ row["x"] < ranges["x"].min_value
          THEN << ValidationIssue(severity, below) >> ELSE <<>>)
       \o (IF ranges["x"].max_value # None /\ row["x"] > ranges["x"].max_value
             THEN << ValidationIssue(severity, above) >> ELSE <<>>)

\* the body of `for index, row in enumerate(records)`: the issues it appends
RowIssues(row, previous_ts, a) ==
  IF ~IsDict(row) THEN << ValidationIssue("error", "invalid_row_type") >>
  ELSE (IF a.required_columns \ DOMAIN row # {}
          THEN << ValidationIssue("error", "missing_required_columns") >>
          ELSE <<>>)
       \o TimestampIssues(row, previous_ts)
       \o RangeIssues(row, a.numeric_ranges, "error", "non_numeric_value",
                      "value_below_min", "value_above_max")
       \o RangeIssues(row, a.warning_numeric_ranges, "warning",
                      "non_numeric_warning_value", "warning_value_below_min",
                      "warning_value_above_max")

\* `sum(1 for row in records if row.get(column) is None)`
MissingCount(records_, column) ==
  Cardinality({ i \in 1..Len(records_) : Get(records_[i], column) = None })

MissingnessIssues(records_, thresholds) ==
  IF "x" \in DOMAIN thresholds
       /\ MissingCount(records_, "x") * thresholds["x"].den
            > thresholds["x"].num * Len(records_)
    THEN << ValidationIssue("warning", "high_missingness") >>
    ELSE <<>>

HasSeverity(issues, severity) ==
  \E i \in 1..Len(issues) : issues[i].severity = severity

ValidateInit ==
  /\ NoCleaning
  /\ pc = "validate_rows"
  /\ \E n \in 0..MaxValidateRows :
       \E recs \in [1..n -> ValidationRows], required \in RequiredColumns,
          with_ranges \in BOOLEAN, thresholds \in MissingThresholds,
          fail_on_warnings \in BOOLEAN :
         args = [records |-> recs,
                 required_columns |-> required,
                 numeric_ranges |->
                   IF with_ranges THEN [k \in {"x"} |-> HardRange] ELSE <<>>,
                 warning_numeric_ranges |->
                   IF with_ranges THEN [k \in {"x"} |-> WarningRange] ELSE <<>>,
                 warning_missing_thresholds |-> thresholds,
                 fail_on_warnings |-> fail_on_warnings]
  /\ frame = [issues |-> <<>>, previous_ts |-> None, next |-> 1,
              validate_records |-> Pending]
  /\ result = Pending

\* validate_records: one iteration of `for index, row in enumerate(records)`
ValidateRow ==
  /\ pc = "validate_rows"
  /\ frame.next <= Len(args.records)
  /\ LET row == args.records[frame.next]
     IN  frame' = [frame EXCEPT
                     !.issues = @ \o RowIssues(row, frame.previous_ts, args),
                     !.previous_ts = IF IsDict(row)
                                       THEN NextPreviousTs(row, @) ELSE @,
                     !.next = @ + 1]
  /\ UNCHANGED <<pc, args, result, cleaning>>

\* validate_records: the missingness block and the return.  row.get on a
\* row that is not a dict raises AttributeError, which nothing catches, so
\* it leaves validate_records and enforce_validation.
ValidateMissingness ==
  /\ pc = "validate_rows"
  /\ frame.next > Len(args.records)
  /\ IF /\ args.records # <<>>
        /\ DOMAIN args.warning_missing_thresholds # {}
        /\ \E i \in 1..Len(args.records) : ~IsDict(args.records[i])
       THEN /\ frame' = [frame EXCEPT
                           !.validate_records = Raised("AttributeError")]
            /\ result' = Raised("AttributeError")
            /\ pc' = "raised"
       ELSE LET issues ==
                  frame.issues
                  \o (IF args.records # <<>>
                        THEN MissingnessIssues(args.records,
                                               args.warning_missing_thresholds)
                        ELSE <<>>)
            IN  /\ frame' = [frame EXCEPT !.issues = issues,
                                          !.validate_records = Returned(issues)]
                /\ pc' = "enforce"
                /\ UNCHANGED result
  /\ UNCHANGED <<args, cleaning>>

\* enforce_validation after validate_records has returned
Enforce ==
  /\ pc = "enforce"
  /\ LET issues == frame.validate_records.value
         has_error == HasSeverity(issues, "error")
         has_warning == HasSeverity(issues, "warning")
     IN  IF has_error \/ (args.fail_on_warnings /\ has_warning)
           THEN /\ result' = Raised("ValidationError")
                /\ pc' = "raised"
           ELSE /\ result' = Returned(issues)
                /\ pc' = "returned"
  /\ UNCHANGED <<args, frame, cleaning>>

ValidateNext ==
  \/ ValidateRow
  \/ ValidateMissingness
  \/ Enforce

SpecValidate == ValidateInit /\ [][ValidateNext]_vars

\* ---- properties of validate_records and enforce_validation

\* C19: validate_records only reports and never raises: whatever the rows
\* (rows that are not objects, unparseable timestamps and non-numeric values
\* included) and whatever the required columns, ranges and missingness
\* thresholds, the call ends by returning a list of issues.
C19_NeverRaises ==
  frame.validate_records.kind # "raised"

\* C20: enforce_validation raises ValidationError exactly when
\* validate_records reports an error-severity issue, or fail_on_warnings is
\* true and it reports a warning-severity issue; in every other case it
\* returns the complete issue list.
C20_RaisesIffReported ==
  Finished =>
    LET reported == IF frame.validate_records.kind = "returned"
                      THEN frame.validate_records.value ELSE <<>>
    IN  IF \/ HasSeverity(reported, "error")
           \/ (args.fail_on_warnings /\ HasSeverity(reported, "warning"))
          THEN result.kind = "raised" /\ result.value = "ValidationError"
          ELSE result.kind = "returned" /\ result.value = frame.issues

\* ------------------------------------------------ build_missingness_report
MaxReportRows == 3

\* the columns of the report, in the order `sorted` gives them
ReportColumnOrder == << "coinbase_close", "gas_usd", "volume" >>

\* a row holds each of two columns with a value, with null, or not at all
ReportRows ==
  { [k \in keys |-> IF k \in nulls THEN None ELSE 1] :
      keys \in SUBSET {"coinbase_close", "gas_usd"},
      nulls \in SUBSET {"coinbase_close", "gas_usd"} }

\* expected_columns: not given, or a set naming a column the rows may lack
ExpectedColumns == { {}, {"coinbase_close"}, {"volume"} }

\* variant: a present value does not end the run
RECURSIVE _max_consecutive_missingNoReset(_, _, _, _, _)
_max_consecutive_missingNoReset(records_, column, i, best, current) ==
  IF i > Len(records_) THEN best
  ELSE IF Get(records_[i], column) = None
    THEN _max_consecutive_missingNoReset(records_, column, i + 1,
                                  Max2(best, current + 1), current + 1)
  ELSE _max_consecutive_missingNoReset(records_, column, i + 1, best, current)

\* _max_consecutive_missing from row i on, with the loop's best and current
RECURSIVE _max_consecutive_missing(_, _, _, _, _)
_max_consecutive_missing(records_, column, i, best, current) ==
  IF i > Len(records_) THEN best
  ELSE IF Get(records_[i], column) = None
    THEN _max_consecutive_missing(records_, column, i + 1,
                                  Max2(best, current + 1), current + 1)
  ELSE _max_consecutive_missing(records_, column, i + 1, best, 0)

\* `sum(1 for row in records if row.get(column) is None)`
missing_count(records_, column) ==
  Cardinality({ i \in 1..Len(records_) : Get(records_[i], column) = None })

\* `(missing_count / total_rows) if total_rows else 0.0`
missing_rate(count, total_rows) ==
  IF total_rows # 0 THEN Ratio(count, total_rows) ELSE Ratio(0, 1)

\* the columns not reported yet, and the first of them in sorted order
Unreported == frame.columns \ DOMAIN frame.per_column

NextColumn ==
  ReportColumnOrder[
    CHOOSE i \in 1..Len(ReportColumnOrder) :
      /\ ReportColumnOrder[i] \in Unreported
      /\ \A j \in 1..(i - 1) : ReportColumnOrder[j] \notin Unreported]

ReportInit ==
  /\ NoCleaning
  /\ pc = "report_columns"
  /\ \E n \in 0..MaxReportRows, expected_columns \in ExpectedColumns :
       \E rows \in [1..n -> ReportRows] :
         args = [records |-> rows, expected_columns |-> expected_columns]
  /\ frame = <<>>
  /\ result = Pending

\* total_rows and the union of expected_columns with every row's keys
ReportColumns ==
  /\ pc = "report_columns"
  /\ frame' = [total_rows |-> Len(args.records),
               columns |-> args.expected_columns \cup
                             UNION { DOMAIN args.records[i] :
                                       i \in 1..Len(args.records) },
               per_column |-> <<>>]
  /\ pc' = "report_loop"
  /\ UNCHANGED <<args, result, cleaning>>

\* one iteration of `for column in sorted(columns)`
ReportColumn ==
  /\ pc = "report_loop"
  /\ Unreported # {}
  /\ LET count == missing_count(args.records, NextColumn)
     IN  frame' = [frame EXCEPT !.per_column =
           Put(@, NextColumn,
               [missing_count |-> count,
                missing_rate |-> missing_rate(count, frame.total_rows),
                max_consecutive_missing |->
                  _max_consecutive_missing(args.records, NextColumn, 1, 0, 0)])]
  /\ UNCHANGED <<pc, args, result, cleaning>>

\* the returned report
ReportReturn ==
  /\ pc = "report_loop"
  /\ Unreported = {}
  /\ result' = Returned([total_rows |-> frame.total_rows,
                         column_count |-> Cardinality(frame.columns),
                         per_column |-> frame.per_column])
  /\ pc' = "returned"
  /\ UNCHANGED <<args, frame, cleaning>>

ReportNext ==
  \/ ReportColumns
  \/ ReportColumn
  \/ ReportReturn

SpecReport == ReportInit /\ [][ReportNext]_vars

\* ---- properties of build_missingness_report

\* row i has no value in the column: it is absent or null
MissingAt(i, column) ==
  column \notin DOMAIN args.records[i] \/ args.records[i][column] = None

\* rows from..to are all missing the column
MissingRun(from, to, column) == \A i \in from..to : MissingAt(i, column)

\* the lengths of the runs of consecutive missing rows, 0 included
RunLengths(column) ==
  {0} \cup { to - from + 1 :
               <<from, to>> \in { pair \in (1..Len(args.records)) \X (1..Len(args.records)) :
                                   /\ pair[1] <= pair[2]
                                   /\ MissingRun(pair[1], pair[2], column) } }

\* C22: the returned report covers the expected columns and every column of
\* a row, and gives for each of them missing_count = the number of rows
\* where the column is absent or null, missing_rate = missing_count /
\* total_rows (0.0 for an empty list) and max_consecutive_missing = the
\* length of the longest run of consecutive rows missing the column.
C22_MissingnessReport ==
  pc = "returned" =>
    LET report == result.value
        total == Len(args.records)
    IN  /\ report.total_rows = total
        /\ DOMAIN report.per_column =
             args.expected_columns \cup
               { k \in {"coinbase_close", "gas_usd"} :
                   \E i \in 1..total : k \in DOMAIN args.records[i] }
        /\ \A column \in DOMAIN report.per_column :
             LET entry == report.per_column[column]
                 missing == { i \in 1..total : MissingAt(i, column) }
             IN  /\ entry.missing_count = Cardinality(missing)
                 /\ IF total = 0
                      THEN entry.missing_rate.num = 0
                      ELSE /\ entry.missing_rate.num = Cardinality(missing)
                           /\ entry.missing_rate.den = total
                 /\ entry.max_consecutive_missing \in RunLengths(column)
                 /\ \A k \in RunLengths(column) :
                      k <= entry.max_consecutive_missing

\* a report over three rows where a column is null, then present, then
\* absent: two missing rows in two runs of one; and an expected column no
\* row holds
C22_Witness ==
  /\ pc = "returned"
  /\ Len(args.records) = 3
  /\ "volume" \in DOMAIN result.value.per_column
  /\ "gas_usd" \in DOMAIN args.records[1]
  /\ args.records[1]["gas_usd"] = None
  /\ "gas_usd" \in DOMAIN args.records[2]
  /\ args.records[2]["gas_usd"] = 1
  /\ "gas_usd" \notin DOMAIN args.records[3]
  /\ result.value.per_column["gas_usd"] =
       [missing_count |-> 2, missing_rate |-> Ratio(2, 3),
        max_consecutive_missing |-> 1]
  /\ result.value.per_column["volume"].max_consecutive_missing = 3

\* ------------------------------------- _aggregate_uniswap_rows_to_minutes
MaxSwapRows == 3

\* the ISO text of an aware UTC instant, as _normalize_uniswap_rows writes it
IsoUtc(instant) == Str(Datetime(instant, 0))

\* the instants of the normalized swaps: two in one minute, one in the next
SwapInstants == { 0, 30, 60 }

\* amount_usd of a swap: null, a text that is no number, a NaN, or a finite
\* amount of either sign
SwapAmounts == { None, NotNumeric, NaN, 0 - 6, 4 }

\* the i-th normalized swap: its price tells the swaps apart
SwapRow(i, instant, amount_usd) ==
  [timestamp_utc |-> IsoUtc(instant), token0_price |-> 100 + i,
   amount_usd |-> amount_usd]

\* _parse_timestamp of a str in ISO form: the aware UTC datetime
_parse_timestamp(value) ==
  Datetime(to_utc(value.parsed), 0)

\* variant: the flow adds the signed amount
AggregateSwapSigned(agg, row, duplicate_policy) ==
  LET amount_usd == Get(row, "amount_usd")
      priced == IF duplicate_policy = "last" /\ agg.swap_count > 0
                  THEN [agg EXCEPT !.token0_price = Get(row, "token0_price")]
                  ELSE agg
      amount_usd_float == IF amount_usd = NotNumeric THEN None ELSE amount_usd
      flowed == IF amount_usd # None /\ amount_usd_float # None
                   /\ amount_usd_float # NaN
                  THEN [priced EXCEPT !.flow_usd = @ + amount_usd_float]
                  ELSE priced
  IN  [flowed EXCEPT !.swap_count = @ + 1]

\* the loop body after the aggregate of the minute is found or created
\* (lines 140-154): the price under policy "last", the flow, the count
AggregateSwap(agg, row, duplicate_policy) ==
  LET amount_usd == Get(row, "amount_usd")
      priced == IF duplicate_policy = "last" /\ agg.swap_count > 0
                  THEN [agg EXCEPT !.token0_price = Get(row, "token0_price")]
                  ELSE agg
      amount_usd_float == IF amount_usd = NotNumeric THEN None ELSE amount_usd
      flowed == IF amount_usd # None /\ amount_usd_float # None
                   /\ amount_usd_float # NaN
                  THEN [priced EXCEPT !.flow_usd = @ + Abs(amount_usd_float)]
                  ELSE priced
  IN  [flowed EXCEPT !.swap_count = @ + 1]

\* `sorted` of a list of distinct instants
RECURSIVE sorted(_)
sorted(minutes) ==
  IF minutes = {} THEN <<>>
  ELSE LET least == CHOOSE m \in minutes : \A other \in minutes : m <= other
       IN  <<least>> \o sorted(minutes \ {least})

AggInit ==
  /\ NoCleaning
  /\ pc = "agg_policy"
  /\ \E n \in 0..MaxSwapRows, duplicate_policy \in DuplicatePolicies :
       \E instants \in [1..n -> SwapInstants], amounts \in [1..n -> SwapAmounts] :
         args = [rows |-> [i \in 1..n |-> SwapRow(i, instants[i], amounts[i])],
                 duplicate_policy |-> duplicate_policy]
  /\ frame = <<>>
  /\ result = Pending

\* `if duplicate_policy not in {"first", "last"}: raise ValueError`
AggCheckPolicy ==
  /\ pc = "agg_policy"
  /\ IF args.duplicate_policy \notin ValidPolicies
       THEN /\ result' = Raised("ValueError")
            /\ pc' = "raised"
            /\ UNCHANGED frame
       ELSE /\ frame' = [aggregates |-> <<>>, ordered_minutes |-> <<>>,
                         next |-> 1]
            /\ pc' = "agg_loop"
            /\ UNCHANGED result
  /\ UNCHANGED <<args, cleaning>>

\* one iteration of `for row in rows`
AggRow ==
  /\ pc = "agg_loop"
  /\ frame.next <= Len(args.rows)
  /\ LET row == args.rows[frame.next]
         minute == normalize_timestamp_to_minute(
                     _parse_timestamp(row["timestamp_utc"]))
         known == minute \in DOMAIN frame.aggregates
         agg == IF known THEN frame.aggregates[minute]
                ELSE [timestamp_utc |-> IsoUtc(minute),
                      token0_price |-> Get(row, "token0_price"),
                      flow_usd |-> 0, swap_count |-> 0]
     IN  frame' =
           [aggregates |->
              Put(frame.aggregates, minute,
                  AggregateSwap(agg, row, args.duplicate_policy)),
            ordered_minutes |->
              IF known THEN frame.ordered_minutes
              ELSE Append(frame.ordered_minutes, minute),
            next |-> frame.next + 1]
  /\ UNCHANGED <<pc, args, result, cleaning>>

\* `return [aggregates[minute] for minute in sorted(ordered_minutes)]`
AggReturn ==
  /\ pc = "agg_loop"
  /\ frame.next > Len(args.rows)
  /\ LET order == sorted({ frame.ordered_minutes[i] :
                             i \in 1..Len(frame.ordered_minutes) })
     IN  result' = Returned([i \in 1..Len(order) |-> frame.aggregates[order[i]]])
  /\ pc' = "returned"
  /\ UNCHANGED <<args, frame, cleaning>>

AggNext ==
  \/ AggCheckPolicy
  \/ AggRow
  \/ AggReturn

SpecAgg == AggInit /\ [][AggNext]_vars

\* ---- properties of _aggregate_uniswap_rows_to_minutes

\* the instant of the i-th swap and the start of its minute
SwapInstant(i) == args.rows[i].timestamp_utc.parsed.wall

SwapMinute(i) == SwapInstant(i) - (SwapInstant(i) % 60)

\* the swaps of a minute, as positions of the input
SwapsIn(minute) == { i \in 1..Len(args.rows) : SwapMinute(i) = minute }

\* the magnitude of a finite amount, 0 for any other amount
Magnitude(i) ==
  LET a == args.rows[i].amount_usd
  IN  IF a \in {None, NotNumeric, NaN} THEN 0 ELSE IF a < 0 THEN 0 - a ELSE a

RECURSIVE Turnover(_)
Turnover(swaps) ==
  IF swaps = {} THEN 0
  ELSE LET i == CHOOSE i \in swaps : TRUE
       IN  Magnitude(i) + Turnover(swaps \ {i})

\* C23: the aggregation returns exactly one record per minute that holds at
\* least one swap, in ascending minute order; its swap_count is the number
\* of swaps of the minute, its flow_usd the sum of the absolute values of
\* their finite amount_usd, and its token0_price the price of the first swap
\* of the minute in input order under policy "first", of the last one under
\* policy "last".
C23_MinuteAggregates ==
  pc = "returned" =>
    LET out == result.value
        MinuteOf(k) == out[k].timestamp_utc.parsed.wall
    IN  /\ { MinuteOf(k) : k \in 1..Len(out) }
             = { SwapMinute(i) : i \in 1..Len(args.rows) }
        /\ \A k \in 1..(Len(out) - 1) : MinuteOf(k) < MinuteOf(k + 1)
        /\ \A k \in 1..Len(out) :
             LET swaps == SwapsIn(MinuteOf(k))
                 first == CHOOSE i \in swaps : \A j \in swaps : i <= j
                 last == CHOOSE i \in swaps : \A j \in swaps : j <= i
             IN  /\ out[k].swap_count = Cardinality(swaps)
                 /\ out[k].flow_usd = Turnover(swaps)
                 /\ out[k].token0_price =
                      args.rows[IF args.duplicate_policy = "first"
                                  THEN first ELSE last].token0_price

\* under policy "last": a swap of the second minute comes first, then two
\* swaps of the first minute with amounts of opposite sign
C23_Witness ==
  /\ pc = "returned"
  /\ args.duplicate_policy = "last"
  /\ Len(args.rows) = 3
  /\ SwapInstant(1) = 60
  /\ SwapInstant(2) = 0
  /\ SwapInstant(3) = 30
  /\ args.rows[2].amount_usd = 0 - 6
  /\ args.rows[3].amount_usd = 4
  /\ args.rows[1].amount_usd = NaN
  /\ Len(result.value) = 2
  /\ result.value[1] = [timestamp_utc |-> IsoUtc(0), token0_price |-> 103,
                        flow_usd |-> 10, swap_count |-> 2]
  /\ result.value[2].flow_usd = 0

\* ------------------------------------------- _find_first_block_at_or_after
MaxSearchLatest == 4

\* block timestamps and search targets around them
BlockTimestamps == { 10, 20, 30 }

SearchTargets == { 5, 10, 15, 20, 30, 35 }

\* the block payload of number n, as far as the search and the fetch read it
Block(n, timestamp) == [type |-> "block", number |-> n, timestamp |-> timestamp]

\* a chain of blocks 0..latest: the client has a payload for the latest
\* block and, for each earlier number, a payload or none; timestamps do not
\* decrease along the payloads
Chains(latest) ==
  { [n \in 0..latest |-> IF ts[n] = None THEN Null ELSE Block(n, ts[n])] :
      ts \in { t \in [0..latest -> BlockTimestamps \cup {None}] :
                 /\ t[latest] # None
                 /\ \A a, b \in 0..latest :
                      (a < b /\ t[a] # None /\ t[b] # None) => t[a] <= t[b] } }

\* client.get_block_by_number of the fake and the JSON-RPC client: the
\* payload, or None for a number the node has no block for
get_block_by_number(chain, block_number) ==
  IF block_number \in DOMAIN chain THEN chain[block_number] ELSE Null

\* the inner `while probe < high` loop from probe on: the number of the
\* first block found, or high when there is none
RECURSIVE ProbeForward(_, _, _)
ProbeForward(chain, probe, high) ==
  IF probe >= high THEN high
  ELSE IF get_block_by_number(chain, probe) # Null THEN probe
  ELSE ProbeForward(chain, probe + 1, high)

\* variant: a block at the target timestamp counts as before it
SearchIterationInclusive(chain, target_timestamp_unix, low, high) ==
  LET mid == (low + high) \div 2
      found == IF get_block_by_number(chain, mid) # Null THEN mid
               ELSE ProbeForward(chain, mid + 1, high)
      asked == IF found = mid THEN 1 ELSE found - mid + (IF found < high THEN 1 ELSE 0)
  IN  IF found >= high
        THEN [low |-> low, high |-> mid, requests |-> asked]
      ELSE IF get_block_by_number(chain, found).timestamp <= target_timestamp_unix
        THEN [low |-> found + 1, high |-> high, requests |-> asked]
      ELSE [low |-> low, high |-> found, requests |-> asked]

\* one iteration of `while low < high` (lines 152-179): the new bounds and
\* the number of get_block_by_number requests it made
SearchIteration(chain, target_timestamp_unix, low, high) ==
  LET mid == (low + high) \div 2
      found == IF get_block_by_number(chain, mid) # Null THEN mid
               ELSE ProbeForward(chain, mid + 1, high)
      asked == IF found = mid THEN 1 ELSE found - mid + (IF found < high THEN 1 ELSE 0)
  IN  IF found >= high
        THEN [low |-> low, high |-> mid, requests |-> asked]
      ELSE IF get_block_by_number(chain, found).timestamp < target_timestamp_unix
        THEN [low |-> found + 1, high |-> high, requests |-> asked]
      ELSE [low |-> low, high |-> found, requests |-> asked]

SearchInit ==
  /\ NoCleaning
  /\ pc = "search_loop"
  /\ \E latest \in 0..MaxSearchLatest, target \in SearchTargets :
       \E chain \in Chains(latest) :
         /\ args = [chain |-> chain, target_timestamp_unix |-> target,
                    latest_block_number |-> latest]
         /\ frame = [low |-> 0, high |-> latest + 1, requests |-> 0]
  /\ result = Pending

SearchStep ==
  /\ pc = "search_loop"
  /\ frame.low < frame.high
  /\ LET after == SearchIteration(args.chain, args.target_timestamp_unix,
                                  frame.low, frame.high)
     IN  frame' = [low |-> after.low, high |-> after.high,
                   requests |-> frame.requests + after.requests]
  /\ UNCHANGED <<pc, args, result, cleaning>>

\* `return low`
SearchReturn ==
  /\ pc = "search_loop"
  /\ frame.low >= frame.high
  /\ result' = Returned(frame.low)
  /\ pc' = "returned"
  /\ UNCHANGED <<args, frame, cleaning>>

SearchNext ==
  \/ SearchStep
  \/ SearchReturn

\* the search runs in one thread: a step that can be taken is taken
SpecSearch == SearchInit /\ [][SearchNext]_vars /\ WF_vars(SearchNext)

\* ---- properties of _find_first_block_at_or_after

\* the numbers of the chain that have a block
Existing == { n \in DOMAIN args.chain : args.chain[n] # Null }

C30_Bound ==
  pc = "returned" =>
    /\ result.value \in 0..(args.latest_block_number + 1)
    /\ \A n \in Existing :
         IF n < result.value
           THEN args.chain[n].timestamp < args.target_timestamp_unix
           ELSE args.chain[n].timestamp >= args.target_timestamp_unix

\* C30: on a chain of blocks 0..latest where blocks other than the latest
\* may be missing and the timestamps of the existing blocks do not decrease,
\* the search terminates, and it returns r in 0..latest+1 such that every
\* existing block below r has a timestamp less than the target and every
\* existing block numbered r or above has a timestamp greater than or equal
\* to the target.
C30_SearchBound == [](C30_Bound) /\ <>(pc = "returned")

\* the search has returned the number of a missing block: the blocks before
\* it are older than the target, the next existing block is not, and the
\* search probed forward over a missing block
C30_Witness ==
  /\ pc = "returned"
  /\ result.value \in DOMAIN args.chain
  /\ args.chain[result.value] = Null
  /\ \E n \in Existing : n < result.value
  /\ \E n \in Existing : n > result.value + 1
  /\ args.chain[result.value + 1] = Null
  /\ frame.requests >= 3

\* --------------------------------------------- fetch_basefee_observations
MaxFetchLatest == 2

\* the whole search from the bounds low and high: the block number returned
\* and the number of get_block_by_number requests made
RECURSIVE _find_first_block_at_or_after(_, _, _, _)
_find_first_block_at_or_after(chain, target_timestamp_unix, low, high) ==
  IF low >= high THEN [block |-> low, requests |-> 0]
  ELSE LET after == SearchIteration(chain, target_timestamp_unix, low, high)
           rest == _find_first_block_at_or_after(chain, target_timestamp_unix,
                                                 after.low, after.high)
       IN  [block |-> rest.block, requests |-> after.requests + rest.requests]

\* `{"auto", "blocks", "feehistory"}` of the mode check
RpcModes == { "auto", "blocks", "feehistory" }

\* the modes a caller passes: the three valid ones and another text
RpcModeArgs == RpcModes \cup { "bogus" }

\* the windows asked for, as pairs of UTC instants: over one block, over two
\* blocks, inverted, and after every block
FetchWindows == { <<15, 25>>, <<15, 35>>, <<25, 15>>, <<35, 45>> }

\* feehistory_blocks_per_request: out of range, one block, two blocks
BlocksPerRequest == { 0, 1, 2 }

\* the node's eth_feeHistory: it answers every call, or its call number
\* fail_at raises the given exception
FeeHistoryBehaviours ==
  { [fail_at |-> 0, error |-> "none"] } \cup
  [fail_at : {1, 2}, error : {"EthereumRPCError", "URLError"}]

\* the chains of the node: those of the search, and a node whose latest
\* block has no payload
FetchChains(latest) == Chains(latest) \cup { [n \in 0..latest |-> Null] }

\* a GasBasefeeObservation: its number, timestamp and base fee
Observation(block_number, timestamp_utc, base_fee_per_gas_wei) ==
  [block_number |-> block_number, timestamp_utc |-> timestamp_utc,
   base_fee_per_gas_wei |-> base_fee_per_gas_wei]

\* parse_block_basefee of a payload of the node, whose blocks all carry the
\* base fee 100
parse_block_basefee(block) == Observation(block.number, block.timestamp, 100)

\* `round(start_ts + ((end_ts - start_ts) * fraction))` with fraction =
\* offset / (chunk_count - 1), rounding a half to the even integer
InterpolatedTimestamp(start_ts, end_ts, offset, chunk_count) ==
  IF chunk_count = 1 THEN start_ts
  ELSE LET den == chunk_count - 1
           twice == 2 * (start_ts * den + (end_ts - start_ts) * offset) + den
           up == twice \div (2 * den)
       IN  IF twice % (2 * den) = 0 /\ up % 2 = 1 THEN up - 1 ELSE up

\* the rows of one chunk (lines 377-400): the blocks whose interpolated
\* timestamp is inside the window, with base fee 100 + offset as the node
\* reports it
RECURSIVE ChunkRows(_, _, _, _, _, _, _)
ChunkRows(chunk_start, chunk_count, offset, start_ts, end_ts, from, to) ==
  IF offset >= chunk_count THEN <<>>
  ELSE LET ts_unix == InterpolatedTimestamp(start_ts, end_ts, offset, chunk_count)
           rest == ChunkRows(chunk_start, chunk_count, offset + 1,
                             start_ts, end_ts, from, to)
       IN  IF ts_unix < from \/ ts_unix > to THEN rest
           ELSE <<Observation(chunk_start + offset, ts_unix, 100 + offset)>>
                  \o rest

\* `sorted(rows, key=lambda row: row.block_number)`: a stable insertion sort
RECURSIVE sorted_by_block_number(_)
sorted_by_block_number(rows) ==
  IF rows = <<>> THEN <<>>
  ELSE LET before == sorted_by_block_number(SubSeq(rows, 1, Len(rows) - 1))
           row == rows[Len(rows)]
           at == Cardinality({ i \in 1..Len(before) :
                                 before[i].block_number <= row.block_number })
       IN  SubSeq(before, 1, at) \o <<row>> \o SubSeq(before, at + 1, Len(before))

FetchInit ==
  /\ NoCleaning
  /\ pc = "fetch_window"
  /\ \E latest \in 0..MaxFetchLatest, window \in FetchWindows,
        rpc_mode \in RpcModeArgs, blocks_per_request \in BlocksPerRequest,
        fee_history \in FeeHistoryBehaviours :
       \E chain \in FetchChains(latest) :
         args = [chain |-> chain, start_time_utc |-> window[1],
                 end_time_utc |-> window[2], rpc_mode |-> rpc_mode,
                 feehistory_blocks_per_request |-> blocks_per_request,
                 fee_history |-> fee_history]
  /\ frame = [latest_block_number |-> None, start_block |-> None,
              end_block |-> None, next_block |-> None, rows |-> <<>>,
              exc |-> "none", requests |-> 0, fee_history_calls |-> 0]
  /\ result = Pending

\* `if end_time_utc <= start_time_utc: raise ValueError`
FetchWindow ==
  /\ pc = "fetch_window"
  /\ IF args.end_time_utc <= args.start_time_utc
       THEN /\ result' = Raised("ValueError")
            /\ pc' = "raised"
       ELSE /\ pc' = "fetch_latest"
            /\ UNCHANGED result
  /\ UNCHANGED <<args, frame, cleaning>>

\* the latest block number and block (lines 200-210): two requests
FetchLatest ==
  /\ pc = "fetch_latest"
  /\ LET latest_block_number ==
           CHOOSE n \in DOMAIN args.chain : \A other \in DOMAIN args.chain : other <= n
         latest_block == get_block_by_number(args.chain, latest_block_number)
     IN  /\ frame' = [frame EXCEPT !.latest_block_number = latest_block_number,
                                   !.requests = @ + 2]
         /\ IF latest_block = Null
              THEN /\ result' = Raised("EthereumRPCError")
                   /\ pc' = "raised"
            ELSE IF args.start_time_utc > latest_block.timestamp
              THEN /\ result' = Returned(<<>>)
                   /\ pc' = "returned"
            ELSE /\ pc' = "fetch_bounds"
                 /\ UNCHANGED result
  /\ UNCHANGED <<args, cleaning>>

\* the two searches and the block range (lines 212-225)
FetchBounds ==
  /\ pc = "fetch_bounds"
  /\ LET start == _find_first_block_at_or_after(
                    args.chain, args.start_time_utc,
                    0, frame.latest_block_number + 1)
         first_after_end == _find_first_block_at_or_after(
                              args.chain, args.end_time_utc + 1,
                              0, frame.latest_block_number + 1)
         end_block == Min2(first_after_end.block - 1, frame.latest_block_number)
     IN  /\ frame' = [frame EXCEPT
                        !.start_block = start.block,
                        !.end_block = end_block,
                        !.requests = @ + start.requests + first_after_end.requests]
         /\ IF start.block > end_block
              THEN /\ result' = Returned(<<>>)
                   /\ pc' = "returned"
              ELSE /\ pc' = "fetch_mode"
                   /\ UNCHANGED result
  /\ UNCHANGED <<args, cleaning>>

\* the mode check and the branch on the mode (lines 227-230)
FetchMode ==
  /\ pc = "fetch_mode"
  /\ IF args.rpc_mode \notin RpcModes
       THEN /\ result' = Raised("ValueError")
            /\ pc' = "raised"
            /\ UNCHANGED frame
     ELSE IF args.rpc_mode \in { "auto", "feehistory" }
       THEN /\ pc' = "feehistory_check"
            /\ UNCHANGED <<frame, result>>
     ELSE /\ pc' = "blocks"
          /\ frame' = [frame EXCEPT !.next_block = frame.start_block]
          /\ UNCHANGED result
  /\ UNCHANGED <<args, cleaning>>

\* variant: the rows of the feeHistory path survive the fallback
FeeHistoryRaisesKeepsRows(e, locals) ==
  IF e \in { "EthereumRPCError", "ValueError" } /\ args.rpc_mode # "feehistory"
    THEN /\ pc' = "blocks"
         /\ frame' = [locals EXCEPT !.exc = e,
                                    !.next_block = frame.start_block]
         /\ UNCHANGED result
  ELSE /\ pc' = "raised"
       /\ result' = Raised(e)
       /\ frame' = [locals EXCEPT !.exc = e]

\* `except (EthereumRPCError, ValueError) as exc` around the feeHistory path
\* (lines 241-247): the exception leaves the function, or the rows of the
\* path are dropped with its frame and block polling starts
FeeHistoryRaises(e, locals) ==
  IF e \in { "EthereumRPCError", "ValueError" } /\ args.rpc_mode # "feehistory"
    THEN /\ pc' = "blocks"
         /\ frame' = [locals EXCEPT !.rows = <<>>, !.exc = e,
                                    !.next_block = frame.start_block]
         /\ UNCHANGED result
  ELSE /\ pc' = "raised"
       /\ result' = Raised(e)
       /\ frame' = [locals EXCEPT !.exc = e]

\* the range check of blocks_per_request (lines 325-326)
FeeHistoryCheck ==
  /\ pc = "feehistory_check"
  /\ IF \/ args.feehistory_blocks_per_request < 1
        \/ args.feehistory_blocks_per_request > 1024
       THEN FeeHistoryRaises("ValueError", frame)
       ELSE /\ pc' = "feehistory_loop"
            /\ frame' = [frame EXCEPT !.next_block = frame.start_block]
            /\ UNCHANGED result
  /\ UNCHANGED <<args, cleaning>>

\* one iteration of `while chunk_start <= end_block` (lines 345-423)
FeeHistoryChunk ==
  /\ pc = "feehistory_loop"
  /\ frame.next_block <= frame.end_block
  /\ LET chunk_start == frame.next_block
         chunk_end == Min2(chunk_start + args.feehistory_blocks_per_request - 1,
                           frame.end_block)
         chunk_count == chunk_end - chunk_start + 1
         start_block_payload == get_block_by_number(args.chain, chunk_start)
         end_block_payload == get_block_by_number(args.chain, chunk_end)
         asked == [frame EXCEPT !.fee_history_calls = @ + 1]
         anchored == [asked EXCEPT
                        !.requests = @ + (IF chunk_count = 1 THEN 1 ELSE 2)]
     IN  IF asked.fee_history_calls = args.fee_history.fail_at
           THEN FeeHistoryRaises(args.fee_history.error, asked)
         ELSE IF start_block_payload = Null \/ end_block_payload = Null
           THEN FeeHistoryRaises("EthereumRPCError", anchored)
         ELSE /\ frame' = [anchored EXCEPT
                             !.rows = @ \o ChunkRows(chunk_start, chunk_count, 0,
                                                     start_block_payload.timestamp,
                                                     end_block_payload.timestamp,
                                                     args.start_time_utc,
                                                     args.end_time_utc),
                             !.next_block = chunk_end + 1]
              /\ UNCHANGED <<pc, result>>
  /\ UNCHANGED <<args, cleaning>>

\* the return of the feeHistory path
FeeHistoryReturn ==
  /\ pc = "feehistory_loop"
  /\ frame.next_block > frame.end_block
  /\ result' = Returned(sorted_by_block_number(frame.rows))
  /\ pc' = "returned"
  /\ UNCHANGED <<args, frame, cleaning>>

\* one iteration of the block polling loop (lines 280-289)
BlocksBlock ==
  /\ pc = "blocks"
  /\ frame.next_block <= frame.end_block
  /\ LET block == get_block_by_number(args.chain, frame.next_block)
         polled == [frame EXCEPT !.requests = @ + 1,
                                 !.next_block = @ + 1]
     IN  IF block = Null THEN frame' = polled
         ELSE LET row == parse_block_basefee(block)
              IN  IF \/ row.timestamp_utc < args.start_time_utc
                     \/ row.timestamp_utc > args.end_time_utc
                    THEN frame' = polled
                    ELSE frame' = [polled EXCEPT !.rows = Append(@, row)]
  /\ UNCHANGED <<pc, args, result, cleaning>>

\* the return of the block polling
BlocksReturn ==
  /\ pc = "blocks"
  /\ frame.next_block > frame.end_block
  /\ result' = Returned(sorted_by_block_number(frame.rows))
  /\ pc' = "returned"
  /\ UNCHANGED <<args, frame, cleaning>>

FetchNext ==
  \/ FetchWindow
  \/ FetchLatest
  \/ FetchBounds
  \/ FetchMode
  \/ FeeHistoryCheck
  \/ FeeHistoryChunk
  \/ FeeHistoryReturn
  \/ BlocksBlock
  \/ BlocksReturn

SpecFetch == FetchInit /\ [][FetchNext]_vars

\* ---- properties of fetch_basefee_observations

\* C21 as stated: a call with an rpc_mode outside auto, blocks, feehistory
\* sends no request to the client, returns no result, and raises nothing
\* but ValueError.
C21_BadModeRaisesFirst ==
  args.rpc_mode \notin RpcModes =>
    /\ frame.requests = 0
    /\ frame.fee_history_calls = 0
    /\ result.kind # "returned"
    /\ result.kind = "raised" => result.value = "ValueError"

\* the rows block polling gives over the block range start..end: the
\* existing blocks of the range whose timestamp is inside the window, in
\* ascending order
RECURSIVE PolledRows(_, _)
PolledRows(start, end) ==
  IF start > end THEN <<>>
  ELSE LET block == args.chain[end]
       IN  IF /\ block # Null
              /\ block.timestamp >= args.start_time_utc
              /\ block.timestamp <= args.end_time_utc
             THEN Append(PolledRows(start, end - 1),
                         Observation(end, block.timestamp, 100))
           ELSE PolledRows(start, end - 1)

\* the feeHistory path has failed with an exception the fetch catches
FeeHistoryFailed == frame.exc \in { "EthereumRPCError", "ValueError" }

C26_State ==
  /\ (args.rpc_mode = "blocks") => frame.fee_history_calls = 0
  /\ (args.rpc_mode = "feehistory" /\ FeeHistoryFailed) =>
       result = Raised(frame.exc)
  /\ (args.rpc_mode = "auto" /\ FeeHistoryFailed) =>
       /\ result.kind # "raised"
       /\ pc = "returned" =>
            result.value = PolledRows(frame.start_block, frame.end_block)

\* the step on which the feeHistory path fails under mode auto leaves no
\* row behind and starts the polling at the first block of the same range
C26_Step ==
  (args.rpc_mode = "auto" /\ frame.exc = "none" /\ frame'.exc # "none"
     /\ FeeHistoryFailed') =>
    /\ pc' = "blocks"
    /\ frame'.rows = <<>>
    /\ frame'.next_block = frame.start_block
    /\ frame'.start_block = frame.start_block
    /\ frame'.end_block = frame.end_block

\* C26: under mode auto, when the feeHistory path fails with
\* EthereumRPCError or ValueError at any chunk, the fetch drops the rows the
\* path has gathered and returns what block polling gives over the same
\* block range; under mode feehistory the same failure leaves the function;
\* under mode blocks get_fee_history is never called.
C26_Fallback == [](C26_State) /\ [][C26_Step]_vars

\* under mode auto the second feeHistory call failed after the first chunk
\* had given a row, and the fetch returned the two polled rows
C26_Witness ==
  /\ pc = "returned"
  /\ args.rpc_mode = "auto"
  /\ frame.exc = "EthereumRPCError"
  /\ frame.fee_history_calls = 2
  /\ args.fee_history.fail_at = 2
  /\ Len(result.value) = 2
  /\ result.value[1].block_number = 1
  /\ result.value[2].block_number = 2

\* ------------------------------------ get_json, post_json, _rpc_call
MaxRetries == 3

\* the three urllib clients, which share the retry loop
HttpClients == { "coinbase", "graph", "ethereum" }

\* what request.urlopen does on one attempt: a response whose body is the
\* JSON asked for, is no JSON, or is JSON that reports errors; an HTTPError
\* with a status code; a URLError; a TimeoutError
Attempts ==
  [class : {"response"}, body : {"ok", "not_json", "errors"}] \cup
  [class : {"HTTPError"}, code : {404, 429, 500}] \cup
  { [class |-> "URLError"], [class |-> "TimeoutError"] }

\* variant: every HTTP error is retried
_is_retryable_http_errorAny(exc) == TRUE

\* _is_retryable_http_error
_is_retryable_http_error(exc) == exc.code = 429 \/ exc.code >= 500

\* the try body after urlopen has answered: json.loads, then the checks of
\* the client (ensure_graph_response_ok, the error and result members)
DecodeResponse(client, response, attempt) ==
  IF response.body = "not_json" THEN Raised("JSONDecodeError")
  ELSE IF response.body = "errors" /\ client = "graph"
    THEN Raised("GraphAPIError")
  ELSE IF response.body = "errors" /\ client = "ethereum"
    THEN Raised("EthereumRPCError")
  ELSE Returned([body |-> response.body, attempt |-> attempt])

RetryInit ==
  /\ NoCleaning
  /\ pc = "retry_send"
  /\ \E client \in HttpClients, max_retries \in 0..MaxRetries :
       \E urlopen \in [1..Max2(1, max_retries) -> Attempts] :
         args = [client |-> client, max_retries |-> max_retries,
                 urlopen |-> urlopen]
  /\ frame = [attempts |-> Max2(1, args.max_retries), attempt |-> 1,
              last_error |-> Null, requests |-> 0, sleeps |-> 0]
  /\ result = Pending

\* the try statement of one attempt: the request, and the return, the raise
\* or the recorded error that follows from its outcome
RetrySend ==
  /\ pc = "retry_send"
  /\ frame.attempt <= frame.attempts
  /\ LET outcome == args.urlopen[frame.attempt]
         sent == [frame EXCEPT !.requests = @ + 1]
         final == frame.attempt >= frame.attempts
         exc == [error |-> outcome, attempt |-> frame.attempt]
     IN  IF outcome.class = "response"
           THEN /\ result' = DecodeResponse(args.client, outcome, frame.attempt)
                /\ pc' = result'.kind
                /\ frame' = sent
         ELSE IF outcome.class = "HTTPError"
                 /\ (~_is_retryable_http_error(outcome) \/ final)
           THEN /\ result' = Raised(exc)
                /\ pc' = "raised"
                /\ frame' = sent
         ELSE IF outcome.class # "HTTPError" /\ final
           THEN /\ result' = Raised(exc)
                /\ pc' = "raised"
                /\ frame' = sent
         ELSE /\ frame' = [sent EXCEPT !.last_error = exc]
              /\ pc' = "retry_sleep"
              /\ UNCHANGED result
  /\ UNCHANGED <<args, cleaning>>

\* `time.sleep(self.retry_backoff_seconds * attempt)` and the next attempt
RetrySleep ==
  /\ pc = "retry_sleep"
  /\ frame' = [frame EXCEPT !.sleeps = @ + 1, !.attempt = @ + 1]
  /\ pc' = "retry_send"
  /\ UNCHANGED <<args, result, cleaning>>

RetryNext ==
  \/ RetrySend
  \/ RetrySleep

\* a call runs in one thread: a step that can be taken is taken
SpecRetry == RetryInit /\ [][RetryNext]_vars /\ WF_vars(RetryNext)

\* ---- properties of the retry loops

\* the attempt failed in a way the clients retry
RetryableFailure(outcome) ==
  \/ outcome.class \in { "URLError", "TimeoutError" }
  \/ outcome.class = "HTTPError" /\ (outcome.code = 429 \/ outcome.code >= 500)

\* the attempt gave a response the client accepts
Successful(outcome) ==
  /\ outcome.class = "response"
  /\ \/ outcome.body = "ok"
     \/ outcome.body = "errors" /\ args.client = "coinbase"

C24_State ==
  /\ frame.requests <= Max2(1, args.max_retries)
  /\ \A i \in 1..(frame.requests - 1) : RetryableFailure(args.urlopen[i])
  /\ pc = "retry_sleep" =>
       /\ RetryableFailure(args.urlopen[frame.requests])
       /\ frame.requests < Max2(1, args.max_retries)
  /\ pc = "returned" =>
       /\ Successful(args.urlopen[frame.requests])
       /\ result.value.attempt = frame.requests
  /\ pc = "raised" =>
       LET outcome == args.urlopen[frame.requests]
       IN  /\ ~Successful(outcome)
           /\ outcome.class # "response" =>
                /\ result.value = [error |-> outcome, attempt |-> frame.requests]
                /\ \/ ~RetryableFailure(outcome)
                   \/ frame.requests = Max2(1, args.max_retries)
  /\ (pc = "retry_send" /\ frame.requests > 0) =>
       frame.requests < Max2(1, args.max_retries)

\* once the call has returned or raised, no further request is sent
C24_Step == Finished => frame'.requests = frame.requests

\* C24: a call makes at most max(1, max_retries) request attempts; it
\* returns the first successful response and sends nothing after it; it
\* retries only after a retryable failure (HTTP 429 or status >= 500,
\* URLError, timeout) on an attempt that is not the last; it raises a
\* non-retryable HTTP error on the attempt where it occurs, and the error of
\* the last attempt when that attempt fails; and it always ends.
C24_BoundedRetry == [](C24_State) /\ [][C24_Step]_vars /\ <>Finished

\* a call with three attempts that met a 429 and a timeout and returned the
\* response of the third attempt
C24_Witness ==
  /\ pc = "returned"
  /\ args.max_retries = 3
  /\ args.urlopen[1].class = "HTTPError"
  /\ args.urlopen[2].class = "TimeoutError"
  /\ frame.requests = 3
  /\ frame.sleeps = 2
  /\ result.value.attempt = 3

\* ------------------------------- fetch_pool_minutes, fetch_pool_swaps_raw
MaxSourceRows == 4

PageSizes == 1..3

PagedFetches == { "fetch_pool_minutes", "fetch_pool_swaps_raw" }

\* the i-th row the subgraph holds for the pool and window: its price tells
\* the rows apart, and the subgraph serves them in any order of timestamp
SourceRow(i, unix_ts) == [periodStartUnix |-> unix_ts, token0Price |-> 100 + i]

Sources(n) ==
  { [i \in 1..n |-> SourceRow(i, unix_ts[i])] : unix_ts \in [1..n -> {60, 120}] }

\* the page the subgraph serves for the variables first and skip
Page(source, first, skip) ==
  SubSeq(source, skip + 1, Min2(skip + first, Len(source)))

\* parse_pool_minute_page: one observation per raw row, in page order
parse_pool_minute_page(raw_rows) ==
  [i \in 1..Len(raw_rows) |->
     [timestamp_utc |-> raw_rows[i].periodStartUnix,
      token0_price |-> raw_rows[i].token0Price]]

\* `sorted(all_rows, key=lambda row: row.timestamp_utc)`: a stable sort
RECURSIVE sorted_by_timestamp_utc(_)
sorted_by_timestamp_utc(rows) ==
  IF rows = <<>> THEN <<>>
  ELSE LET before == sorted_by_timestamp_utc(SubSeq(rows, 1, Len(rows) - 1))
           row == rows[Len(rows)]
           at == Cardinality({ i \in 1..Len(before) :
                                 before[i].timestamp_utc <= row.timestamp_utc })
       IN  SubSeq(before, 1, at) \o <<row>> \o SubSeq(before, at + 1, Len(before))

\* variant: a full page ends the loop too
IsLastPageEager(page_rows, page_size) == Len(page_rows) <= page_size

\* the two breaks of the loop: `if not page_rows` and
\* `if len(page_rows) < page_size`
IsLastPage(page_rows, page_size) ==
  page_rows = <<>> \/ Len(page_rows) < page_size

PageInit ==
  /\ NoCleaning
  /\ pc = "page_window"
  /\ \E n \in 0..MaxSourceRows, fetch \in PagedFetches, page_size \in PageSizes,
        window \in { <<0, 600>>, <<600, 600>> } :
       \E source \in Sources(n) :
         args = [fetch |-> fetch, source |-> source, page_size |-> page_size,
                 start_time_utc |-> window[1], end_time_utc |-> window[2]]
  /\ frame = [skip |-> 0, rows |-> <<>>, requests |-> <<>>]
  /\ result = Pending

\* `if end_time_utc <= start_time_utc: raise ValueError`
PageWindow ==
  /\ pc = "page_window"
  /\ IF args.end_time_utc <= args.start_time_utc
       THEN /\ result' = Raised("ValueError")
            /\ pc' = "raised"
       ELSE /\ pc' = "page_loop"
            /\ UNCHANGED result
  /\ UNCHANGED <<args, frame, cleaning>>

\* one iteration of `while True`: the request, the rows of the page, and
\* the break or the next skip
PageFetch ==
  /\ pc = "page_loop"
  /\ LET raw_rows == Page(args.source, args.page_size, frame.skip)
         page_rows == IF args.fetch = "fetch_pool_minutes"
                        THEN parse_pool_minute_page(raw_rows)
                        ELSE raw_rows
         last == IsLastPage(page_rows, args.page_size)
     IN  /\ frame' = [skip |-> IF last THEN frame.skip
                               ELSE frame.skip + args.page_size,
                      rows |-> frame.rows \o page_rows,
                      requests |-> Append(frame.requests, frame.skip)]
         /\ pc' = IF last THEN "page_return" ELSE "page_loop"
  /\ UNCHANGED <<args, result, cleaning>>

\* the return: the rows as gathered, sorted by timestamp for the minutes
PageReturn ==
  /\ pc = "page_return"
  /\ result' = Returned(IF args.fetch = "fetch_pool_minutes"
                          THEN sorted_by_timestamp_utc(frame.rows)
                          ELSE frame.rows)
  /\ pc' = "returned"
  /\ UNCHANGED <<args, frame, cleaning>>

PageNext ==
  \/ PageWindow
  \/ PageFetch
  \/ PageReturn

SpecPage == PageInit /\ [][PageNext]_vars

\* ---- properties of the paginated fetches

\* the price that identifies a returned row
RowPrice(row) ==
  IF args.fetch = "fetch_pool_minutes" THEN row.token0_price ELSE row.token0Price

\* C25: the requests of a paginated fetch carry skip = 0, page_size,
\* 2 * page_size, ... in that order, there are never more than
\* floor(N / page_size) + 1 of them, and when the fetch returns there are
\* exactly that many; the result holds each of the N rows of the source
\* exactly once, for fetch_pool_minutes in ascending order of timestamp and
\* for fetch_pool_swaps_raw in the order served.
C25_Pagination ==
  LET n == Len(args.source)
      pages == (n \div args.page_size) + 1
  IN  /\ Len(frame.requests) <= pages
      /\ \A k \in 1..Len(frame.requests) :
           frame.requests[k] = (k - 1) * args.page_size
      /\ pc = "returned" =>
           /\ Len(frame.requests) = pages
           /\ Len(result.value) = n
           /\ \A i \in 1..n : \E k \in 1..n :
                RowPrice(result.value[k]) = args.source[i].token0Price
           /\ args.fetch = "fetch_pool_swaps_raw" => result.value = args.source
           /\ args.fetch = "fetch_pool_minutes" =>
                \A k \in 1..(n - 1) :
                  result.value[k].timestamp_utc <= result.value[k + 1].timestamp_utc

\* four rows served out of timestamp order in pages of two: three requests,
\* the last for an empty page, and the minutes returned in order
C25_Witness ==
  /\ pc = "returned"
  /\ args.fetch = "fetch_pool_minutes"
  /\ args.page_size = 2
  /\ Len(args.source) = 4
  /\ args.source[1].periodStartUnix = 120
  /\ args.source[4].periodStartUnix = 60
  /\ frame.requests = <<0, 2, 4>>
  /\ result.value[1].timestamp_utc = 60
  /\ result.value[4].timestamp_utc = 120

====
